---- MODULE Spec2Model ----
(***************************************************************************)
(* Debug-session state synchronisation of the debugger panel               *)
(* (crates/debugger_ui/src/debugger_panel.rs): the thread-state store of   *)
(* one debug adapter client, the Stopped reconciliation with its           *)
(* stackTrace / scopes / variables fan-out, the Continued and Thread       *)
(* events, and the clearing and placing of the current-line highlight.     *)
(*                                                                         *)
(* One foreground executor runs everything: an event handler, or one poll  *)
(* of a spawned task (from one await to the next), is one atomic action.   *)
(* A task spawned with cx.spawn is polled for the first time in a later    *)
(* step than the handler that spawned it.                                  *)
(***************************************************************************)
EXTENDS Integers, Sequences, FiniteSets, TLC

VARIABLES thread_states, tasks, clears, items, active_item, highlights,
          crashed, ignored, logged, emitted,
          config, sent, child, exits, terms, starting, initializing, teardown,
          closing, tracking,
          kernel, blocks, processes, request_tx, stops, queued,
          editor_blocks, last_call

\* thread_states  client.thread_states(): thread id -> ThreadState
\* tasks          the tasks spawned by handle_stopped_event
\* clears         the tasks spawned by handle_thread_event
\* items          pane.items(): thread id -> how many DebugPanelItems of the
\*                client the pane holds for it
\* active_item    the thread id of the pane's active item, if any
\* highlights     the DebugCurrentRowHighlight rows: <<path, row>>
\* crashed        a foreground task has panicked
\* ignored        the last step handled a Stopped event without thread id
\* logged         what detach_and_log_err logged in the last step: <<>>, or
\*                <<stage, request>> of the task that ended with an error
\* emitted        the DebugPanelEvents the last step emitted
\* config         the client's configuration: request kind and request_args
\* sent           the session requests issued so far, in order: <<command,
\*                arguments>>, the host's stop_debug_adapter_client included
\* child          the configuration handed to start_debug_adapter_client by
\*                the last StartDebugging request, if any
\* exits          the tasks spawned by handle_exited_event and not yet polled
\* terms          the tasks spawned by handle_terminated_event
\* starting       the task spawned on DebugClientStarted
\* initializing   the task spawned by handle_initialized_event
\* teardown       an Exited or Terminated event has been handled
\* closing        the threads whose terminateThreads task handle_pane_event
\*                has spawned and the executor has not polled yet
\* tracking       history is kept of the Continued events that arrive while
\*                a reconciliation is in flight
\* kernel         Session::kernel: the variant and, for StartingKernel and
\*                RunningKernel, the kernel process it refers to
\* blocks         Session::blocks: message id -> code range and block id of
\*                the block
\* processes      the kernel processes: process id -> status
\* request_tx     the messages handed to the kernels' request_tx, in order
\* stops          the tasks spawned by Session::shutdown and Session::restart
\* queued         the tasks spawned by Session::execute while the kernel starts
\* editor_blocks  the ids of the custom blocks the editor holds
\* last_call      which of Session::shutdown and Session::restart the host
\*                invoked last, if any, and the Kernel variant that call
\*                found and replaced
\* the state of the repl Session
repl_vars == <<kernel, blocks, processes, request_tx, stops, queued,
               editor_blocks, last_call>>

session_vars == <<config, sent, child, exits, terms, starting, initializing,
                  teardown, closing, tracking, repl_vars>>

vars == <<thread_states, tasks, clears, items, active_item, highlights,
          crashed, ignored, logged, emitted,
          config, sent, child, exits, terms, starting, initializing, teardown,
          closing, tracking,
          kernel, blocks, processes, request_tx, stops, queued,
          editor_blocks, last_call>>

(***************************************************************************)
(* Bounds                                                                  *)
(***************************************************************************)
\* thread ids carried by events are 1..MaxThread
MaxThread == 2
\* spawned Stopped reconciliations that may be in progress at once
MaxTasks == 2
\* spawned highlight-clearing tasks of Thread events in progress at once
MaxClears == 1

\* spawned tasks of Terminated events in progress at once
MaxTerms == 1
\* spawned tasks of Exited events not yet polled
MaxExits == 1
\* session requests recorded
MaxSent == 4
\* the panel items the user closes in the pane profile
MaxClosing == 2
\* kernel processes a repl session starts
MaxKernels == 2
\* tasks of Session::shutdown and Session::restart in flight
MaxStops == 2
\* messages handed to request_tx
MaxRequests == 3
\* lines of the buffer that cells cover
MaxLine == 2

ThreadIds == 1..MaxThread
TaskIds == 1..MaxTasks
ClearIds == 1..MaxClears
TermIds == 1..MaxTerms

\* the one debug adapter client of the session (client.id())
ClientId == 1

\* Option<T> is a sequence of length 0 (None) or 1 (Some)
NoneOpt == <<>>
Some(x) == <<x>>

(***************************************************************************)
(* The debug adapter's answers and the project: the inputs of the program. *)
(* Frames 1, 2, 5, 6 and 7 have sources inside the project, frame 3 has a   *)
(* source path outside of it, frame 4 has no source at all.  Frames 1, 2   *)
(* and 5 have scopes.                                                      *)
(***************************************************************************)
FrameSource(id) ==
    CASE id = 1 -> Some("a.rs")
      [] id = 2 -> Some("b.rs")
      [] id = 3 -> Some("ext.rs")
      [] id = 5 -> Some("a.rs")
      [] id = 6 -> Some("a.rs")
      [] id = 7 -> Some("b.rs")
      [] OTHER  -> NoneOpt

StackFrame(id) == [id |-> id, source |-> FrameSource(id), line |-> 2 * id + 1]

\* the stack_frames a StackTrace response may carry (the top of stack first)
CoreStacks ==
    { <<>>,
      <<StackFrame(1)>>,
      <<StackFrame(2), StackFrame(1)>> }

\* stacks whose one scope holds a deeper variable tree
FetchStacks ==
    { <<StackFrame(5)>>,
      <<StackFrame(2), StackFrame(5)>> }

\* stacks of frames without scopes; frame 3 is in a file outside the project
TeardownStacks ==
    { <<StackFrame(6)>>,
      <<StackFrame(3), StackFrame(6)>> }

\* stacks of frames without scopes whose current frame has a file of the
\* project, no source (frame 4), or a file outside the project (frame 3)
NavStacks ==
    { <<StackFrame(6)>>,
      <<StackFrame(4), StackFrame(6)>>,
      <<StackFrame(3), StackFrame(6)>> }

\* stacks of frames without scopes; frame 4 has no source
HighlightStacks ==
    { <<StackFrame(6)>>,
      <<StackFrame(7), StackFrame(6)>>,
      <<StackFrame(6), StackFrame(4)>> }

Scope(name, ref) == [name |-> name, variables_reference |-> ref]
Variable(name, ref) == [name |-> name, variables_reference |-> ref]

\* the scopes of a Scopes response, by frame id
ScopesOf(frame_id) ==
    CASE frame_id = 1 -> << Scope("Locals", 1), Scope("Globals", 2) >>
      [] frame_id = 2 -> << Scope("Locals", 3) >>
      [] frame_id = 5 -> << Scope("Locals", 10) >>
      [] OTHER        -> << >>

\* the variables of a Variables response, by variables_reference
VariablesOf(ref) ==
    CASE ref = 1  -> << Variable("a", 4), Variable("c", 0) >>
      [] ref = 2  -> << Variable("g", 0) >>
      [] ref = 3  -> << >>
      [] ref = 4  -> << Variable("d", 0) >>
      [] ref = 10 -> << Variable("p", 11), Variable("q", 12), Variable("r", 0) >>
      [] ref = 11 -> << Variable("s", 0) >>
      [] ref = 12 -> << Variable("t", 13), Variable("u", 0) >>
      [] ref = 13 -> << Variable("v", 0) >>
      [] OTHER    -> << >>

\* project.project_path_for_absolute_path: the paths that resolve
ProjectPaths == {"a.rs", "b.rs"}

(***************************************************************************)
(* ThreadState (dap::client) and the thread-state store                    *)
(***************************************************************************)
EmptyMap == [x \in {} |-> x]

\* ThreadState::default()
DefaultThreadState ==
    [ status |-> "Running",
      stack_frames |-> <<>>,
      current_stack_frame_id |-> 0,
      variables |-> EmptyMap ]

\* client.thread_states().insert(thread_id, state)
Insert(map, key, value) ==
    [k \in (DOMAIN map) \cup {key} |-> IF k = key THEN value ELSE map[k]]

\* client.update_thread_state_status(thread_id, status)
update_thread_state_status(map, thread_id, status) ==
    IF thread_id \in DOMAIN map
    THEN [map EXCEPT ![thread_id].status = status]
    ELSE map

(***************************************************************************)
(* fetch_variables: the value it returns                                   *)
(***************************************************************************)
\* bounds of the variable trees: the length of a response and the nesting
MaxWidth == 3
MaxHeight == 4

RECURSIVE ConcatAll(_)
ConcatAll(seqs) ==
    IF seqs = <<>> THEN <<>> ELSE Head(seqs) \o ConcatAll(Tail(seqs))

RECURSIVE fetch_variables(_, _)

\* as VariableEntries, with the nested variables before the variable
VariableEntriesChildrenFirst(variable, depth) ==
    ( IF variable.variables_reference > 0
      THEN fetch_variables(variable.variables_reference, depth + 1)
      ELSE <<>> ) \o
    << <<depth, variable>> >>

\* one task of fetch_variables: the variable, then its nested variables
VariableEntries(variable, depth) ==
    << <<depth, variable>> >> \o
    ( IF variable.variables_reference > 0
      THEN fetch_variables(variable.variables_reference, depth + 1)
      ELSE <<>> )

\* try_join_all(tasks), appended in the order of the tasks
fetch_variables(variables_reference, depth) ==
    LET response == VariablesOf(variables_reference)
    IN  ConcatAll([k \in 1..Len(response) |-> VariableEntries(response[k], depth)])

(***************************************************************************)
(* The requests of one reconciliation.  A request is named by its place in *)
(* the fan-out: <<>> is the StackTrace request, <<k>> the Scopes request   *)
(* of the k-th frame, <<k, j>> the Variables request of the j-th scope of  *)
(* that frame, and n \o <<m>> the Variables request of the m-th variable   *)
(* of the response to request n.                                           *)
(***************************************************************************)
Front(n) == SubSeq(n, 1, Len(n) - 1)

RECURSIVE NodeRef(_, _)
\* the variables_reference the Variables request n carries
NodeRef(frames, n) ==
    IF Len(n) = 2
    THEN ScopesOf(frames[n[1]].id)[n[2]].variables_reference
    ELSE VariablesOf(NodeRef(frames, Front(n)))[n[Len(n)]].variables_reference

\* the depth argument of the fetch_variables call that sends request n
NodeDepth(n) == Len(n) - 1

\* the nested fetch_variables calls started when the response to n arrives:
\* one per variable with a nonzero reference, all polled by try_join_all
ChildRequests(frames, n) ==
    LET response == VariablesOf(NodeRef(frames, n))
    IN  { n \o <<m>> : m \in { m \in 1..Len(response) :
                                 response[m].variables_reference > 0 } }

\* the Scopes requests, one per stack frame
ScopeRequests(frames) == { <<k>> : k \in 1..Len(frames) }

\* the root fetch_variables calls, one per (stack frame, scope)
RootRequests(frames) ==
    UNION { { <<k, j>> : j \in 1..Len(ScopesOf(frames[k].id)) } :
            k \in 1..Len(frames) }

(***************************************************************************)
(* Tasks                                                                   *)
(***************************************************************************)
\* resumed is a history field: a Continued event for the task's thread, or
\* for all threads, has been handled since the task was spawned
\* latest is a history field: the task is the reconciliation of the last
\* Stopped event that arrived for its thread
IdleTask ==
    [ pc |-> "idle", thread_id |-> 0, event |-> <<>>, frames |-> <<>>,
      pending |-> {}, got |-> {},
      current |-> NoneOpt, batch |-> <<>>, opening |-> {}, latest |-> FALSE,
      resumed |-> FALSE ]

\* at_event is a history field: the frames stored for the thread when the
\* Thread event was handled
IdleClear ==
    [ pc |-> "idle", thread_id |-> 0, batch |-> <<>>, opening |-> {},
      at_event |-> <<>> ]

Min(S) == CHOOSE x \in S : \A y \in S : x <= y

\* the first poll of try_join_all over remove_editor_highlight futures, in
\* order: a frame without source panics at the unwrap, a path outside the
\* project is an error at once (the futures after it are never polled),
\* and otherwise every future waits for its open_path
FirstPoll(batch) ==
    LET bad == { k \in 1..Len(batch) :
                   \/ batch[k].source = NoneOpt
                   \/ batch[k].source[1] \notin ProjectPaths }
    IN  IF bad = {} THEN "pending"
        ELSE IF batch[Min(bad)].source = NoneOpt THEN "panic" ELSE "err"

\* editor.clear_row_highlights::<DebugCurrentRowHighlight>() of one file
ClearRowHighlights(hl, path) == { h \in hl : h[1] # path }

\* editor.go_to_line::<DebugCurrentRowHighlight>(row, column, ...)
GoToLine(hl, path, row) == ClearRowHighlights(hl, path) \cup { <<path, row>> }

(***************************************************************************)
(* serde_json values: numbers and objects, tagged by kind                  *)
(***************************************************************************)
Num(n) == [kind |-> "number", value |-> n]
Obj(fields) == [kind |-> "object", value |-> fields]

\* json!({})
EmptyObject == Obj(<<>>)

\* the request arguments a client can be configured with
\* ({a:1, b:{x:1}} and {b:1, c:{x:1}})
RequestArgs ==
    { Obj([a |-> Num(1), b |-> Obj([x |-> Num(1)])]),
      Obj([b |-> Num(1), c |-> Obj([x |-> Num(1)])]) }

\* the configurations a StartDebugging request can carry
\* ({b:{y:2}, c:3}, {b:{x:2}}, {a:{x:1}} and {})
Configurations ==
    { Obj([b |-> Obj([y |-> Num(2)]), c |-> Num(3)]),
      Obj([b |-> Obj([x |-> Num(2)])]),
      Obj([a |-> Obj([x |-> Num(1)])]),
      EmptyObject }

\* the restart data a Terminated event can carry ({r:1})
RestartArgs == { Obj([r |-> Num(1)]) }

Configs ==
    [ request : {"Launch", "Attach"},
      request_args : {NoneOpt} \cup { Some(a) : a \in RequestArgs } ]

\* util::merge_json_value_into(source, &mut target): the target afterwards
RECURSIVE merge_json_value_into(_, _)
merge_json_value_into(source, target) ==
    IF source.kind = "object" /\ target.kind = "object"
    THEN Obj([ key \in DOMAIN source.value \cup DOMAIN target.value |->
                 IF key \notin DOMAIN source.value THEN target.value[key]
                 ELSE IF key \notin DOMAIN target.value THEN source.value[key]
                 ELSE merge_json_value_into(source.value[key],
                                            target.value[key]) ])
    ELSE source

\* the task of a Terminated event: restart is the event's restart data
IdleTerm ==
    [ pc |-> "idle", restart |-> NoneOpt, batch |-> <<>>, opening |-> {} ]

(***************************************************************************)
(* The repl Session                                                        *)
(***************************************************************************)
KernelIds == 1..MaxKernels
StopIds == 1..MaxStops

\* the variants of Kernel
StartingKernel(id) == [state |-> "StartingKernel", id |-> id]
RunningKernel(id) == [state |-> "RunningKernel", id |-> id]
ErroredLaunch == [state |-> "ErroredLaunch", id |-> 0]
ShuttingDown == [state |-> "ShuttingDown", id |-> 0]
Shutdown == [state |-> "Shutdown", id |-> 0]
Restarting == [state |-> "Restarting", id |-> 0]

\* the code ranges of cells: first and last line
Ranges == { r \in (1..MaxLine) \X (1..MaxLine) : r[1] <= r[2] }

\* anchor_range.overlaps
overlaps(a, b) == a[1] <= b[2] /\ b[1] <= a[2]

\* `forced` is the task kernel.force_shutdown returned: "pending" until it
\* resolves with "ok" or "err"
IdleStop == [ pc |-> "idle", kind |-> "none", id |-> 0, forced |-> "none" ]

\* the kernel process the next start_kernel launches
NextKernel == 1 + Cardinality({ id \in KernelIds : processes[id] # "none" })

\* Session::new: no block, and start_kernel has launched the first kernel
SessionNew ==
    /\ kernel = StartingKernel(1)
    /\ blocks = {}
    /\ processes = [id \in KernelIds |-> IF id = 1 THEN "starting" ELSE "none"]
    /\ request_tx = <<>>
    /\ stops = [k \in StopIds |-> IdleStop]
    /\ queued = {}
    /\ editor_blocks = {}
    /\ last_call = [call |-> "none", found |-> "none"]

\* the panel after DebugPanel::new, before any event of the client
PanelInit ==
    /\ thread_states = EmptyMap
    /\ tasks = [i \in TaskIds |-> IdleTask]
    /\ clears = [c \in ClearIds |-> IdleClear]
    /\ items = [t \in ThreadIds |-> 0]
    /\ active_item = NoneOpt
    /\ highlights = {}
    /\ crashed = FALSE
    /\ ignored = FALSE
    /\ logged = <<>>
    /\ emitted = <<>>
    /\ sent = <<>>
    /\ child = NoneOpt
    /\ exits = 0
    /\ terms = [k \in TermIds |-> IdleTerm]
    /\ starting = "idle"
    /\ initializing = "idle"
    /\ teardown = FALSE
    /\ closing = {}
    /\ SessionNew

\* a client launched without request arguments
Init ==
    /\ PanelInit
    /\ tracking = FALSE
    /\ config = [request |-> "Launch", request_args |-> NoneOpt]

\* a client of any configuration
SessionInit ==
    /\ PanelInit
    /\ tracking = FALSE
    /\ config \in Configs

(***************************************************************************)
(* Events (the inputs of handle_debug_client_events)                       *)
(***************************************************************************)
StoppedEvents ==
    { [thread_id |-> NoneOpt] } \cup { [thread_id |-> Some(t)] : t \in ThreadIds }

ContinuedEvents ==
    [ thread_id : ThreadIds,
      all_threads_continued : { NoneOpt, Some(TRUE), Some(FALSE) } ]

ThreadEvents == [ reason : {"started", "exited"}, thread_id : ThreadIds ]

\* Option::unwrap_or
UnwrapOr(opt, default) == IF opt = NoneOpt THEN default ELSE opt[1]

FreeTasks == { i \in TaskIds : tasks[i].pc = "idle" }
FreeClears == { c \in ClearIds : clears[c].pc = "idle" }

(***************************************************************************)
(* handle_stopped_event: the handler, and the polls of the task it spawns  *)
(***************************************************************************)
\* the task the handler spawns for an event with a thread id
SpawnReconcile(event) ==
    [IdleTask EXCEPT !.pc = "spawned",
                     !.thread_id = event.thread_id[1],
                     !.event = event,
                     !.latest = TRUE]

\* the tasks once a Stopped event for thread_id has arrived: the
\* reconciliations of the earlier ones are no longer the latest
Superseded(thread_id) ==
    [i \in TaskIds |->
        IF tasks[i].pc # "idle" /\ tasks[i].thread_id = thread_id
        THEN [tasks[i] EXCEPT !.latest = FALSE] ELSE tasks[i]]

\* as StoppedEvent, with a missing thread id read as thread 1
StoppedEventDefaultThread(event) ==
    /\ ~crashed
    /\ FreeTasks # {}
    /\ tasks' = [Superseded(UnwrapOr(event.thread_id, 1))
                    EXCEPT ![Min(FreeTasks)] =
           SpawnReconcile([thread_id |-> Some(UnwrapOr(event.thread_id, 1))])]
    /\ ignored' = (event.thread_id = NoneOpt)
    /\ logged' = <<>>
    /\ emitted' = <<>>
    /\ UNCHANGED <<session_vars, thread_states, clears, items, active_item,
                   highlights, crashed>>

\* the handler itself: returns at once without a thread id, else spawns
StoppedEvent(event) ==
    /\ ~crashed
    /\ IF event.thread_id = NoneOpt
       THEN /\ ignored' = TRUE
            /\ UNCHANGED tasks
       ELSE /\ FreeTasks # {}
            /\ tasks' = [Superseded(event.thread_id[1])
                             EXCEPT ![Min(FreeTasks)] = SpawnReconcile(event)]
            /\ ignored' = FALSE
    /\ logged' = <<>>
    /\ emitted' = <<>>
    /\ UNCHANGED <<session_vars, thread_states, clears, items, active_item,
                   highlights, crashed>>

\* a step of a task that touches nothing but the task
TaskStep(i, task) ==
    /\ tasks' = [tasks EXCEPT ![i] = task]
    /\ ignored' = FALSE
    /\ logged' = <<>>
    /\ emitted' = <<>>
    /\ UNCHANGED <<session_vars, thread_states, clears, items, active_item,
                   highlights, crashed>>

\* the task ends with an error, which detach_and_log_err logs
TaskError(i, n) ==
    /\ tasks' = [tasks EXCEPT ![i] = IdleTask]
    /\ ignored' = FALSE
    /\ logged' = <<tasks[i].pc, n>>
    /\ emitted' = <<>>
    /\ UNCHANGED <<session_vars, thread_states, clears, items, active_item,
                   highlights, crashed>>

\* a panic in a foreground task takes the host down
Panic ==
    /\ crashed' = TRUE
    /\ ignored' = FALSE
    /\ logged' = <<>>
    /\ emitted' = <<>>
    /\ UNCHANGED <<session_vars, thread_states, tasks, clears, items,
                   active_item, highlights>>

\* the first poll of the spawned task: the StackTrace request is sent
ReconcileStart(i) ==
    /\ ~crashed
    /\ tasks[i].pc = "spawned"
    /\ TaskStep(i, [tasks[i] EXCEPT !.pc = "stackTrace", !.pending = { <<>> }])

\* as ReconcileFail, with the frames received so far written to the store
ReconcileFailPartial(i, n) ==
    /\ thread_states' = Insert(thread_states, tasks[i].thread_id,
           [DefaultThreadState EXCEPT !.status = "Stopped",
                                      !.stack_frames = tasks[i].frames])
    /\ tasks' = [tasks EXCEPT ![i] = IdleTask]
    /\ ignored' = FALSE
    /\ logged' = <<tasks[i].pc, n>>
    /\ emitted' = <<>>
    /\ UNCHANGED <<session_vars, clears, items, active_item, highlights,
                   crashed>>

\* as ReconcileFail, with the error logged and the other requests awaited
ReconcileFailCarriesOn(i, n) ==
    /\ tasks' = [tasks EXCEPT ![i].pending = @ \ {n}]
    /\ ignored' = FALSE
    /\ logged' = <<tasks[i].pc, n>>
    /\ emitted' = <<>>
    /\ UNCHANGED <<session_vars, thread_states, clears, items, active_item,
                   highlights, crashed>>

\* a request failed: `?` ends the task, the futures still pending are dropped
ReconcileFail(i, n) == TaskError(i, n)

\* as CurrentStackFrame, with the last frame for the first
CurrentStackFrameLast(frames) == frames[Len(frames)]

\* stack_trace_response.stack_frames.first().unwrap().clone()
CurrentStackFrame(frames) == frames[1]

\* the nested variables mapping built from the joined results
AssembleVariables(frames) ==
    [ frame_id \in { frames[k].id : k \in 1..Len(frames) } |->
        LET scopes == ScopesOf(frame_id)
        IN  [ scope \in { scopes[j] : j \in 1..Len(scopes) } |->
                fetch_variables(scope.variables_reference, 1) ] ]

\* thread_state.variables.entry(stack_frame_id).or_insert_with(..) and the
\* insert of every scope, over the joined results
InsertVariables(base, new) ==
    [ f \in DOMAIN base \cup DOMAIN new |->
        IF f \notin DOMAIN new THEN base[f]
        ELSE IF f \notin DOMAIN base THEN new[f]
        ELSE [ scope \in DOMAIN base[f] \cup DOMAIN new[f] |->
                 IF scope \in DOMAIN new[f] THEN new[f][scope] ELSE base[f][scope] ] ]

\* the ThreadState the reconciliation assembles, from ThreadState::default()
AssembleThreadState(frames) ==
    [ DefaultThreadState EXCEPT
        !.variables = InsertVariables(@, AssembleVariables(frames)),
        !.current_stack_frame_id = CurrentStackFrame(frames).id,
        !.stack_frames = frames,
        !.status = "Stopped" ]

\* as ApplyThreadState, with the variables merged into the previous entry's
ApplyThreadStateMerge(map, thread_id, frames) ==
    LET new == AssembleThreadState(frames)
        old == IF thread_id \in DOMAIN map THEN map[thread_id].variables ELSE EmptyMap
    IN  Insert(map, thread_id,
               [new EXCEPT !.variables =
                   [f \in DOMAIN old \cup DOMAIN new.variables |->
                       IF f \in DOMAIN new.variables THEN new.variables[f] ELSE old[f]]])

\* as ApplyThreadState, every entry of the store being replaced
ApplyThreadStateEvery(map, thread_id, frames) ==
    [u \in DOMAIN map \cup {thread_id} |-> AssembleThreadState(frames)]

\* the store after the reconciliation's insert
ApplyThreadState(map, thread_id, frames) ==
    Insert(map, thread_id, AssembleThreadState(frames))

\* the closure starts no navigation
AfterApplyNoNavigation(task, active) == IdleTask

\* the task once the closure has run: it awaits the navigation it spawned
\* if the active item is this thread's, and is finished otherwise
AfterApply(task, active) ==
    IF active = Some(task.thread_id)
    THEN [IdleTask EXCEPT !.pc = "nav_spawned",
                          !.thread_id = task.thread_id,
                          !.event = task.event,
                          !.current = Some(CurrentStackFrame(task.frames))]
    ELSE IdleTask

\* the search finds nothing
existing_item_missed(t) == FALSE

\* the search of the pane for an item of this client and thread
existing_item(t) == items[t] > 0

\* nothing is emitted
EmitStoppedDropped(client_id, event) == <<>>

\* cx.emit(DebugPanelEvent::Stopped((client_id, event)))
EmitStopped(client_id, event) == << <<"Stopped", client_id, event>> >>

\* the this.update closure once everything is joined: the entry is replaced,
\* the panel item is created if missing, Stopped is emitted, and the
\* navigation is spawned if the active item is this thread's.  `activate`
\* is whether Pane::add_item makes the item it adds the active one.
ReconcileApply(i, activate) ==
    LET t == tasks[i].thread_id
    IN  /\ thread_states' = ApplyThreadState(thread_states, t, tasks[i].frames)
        /\ items' = IF existing_item(t) THEN items ELSE [items EXCEPT ![t] = @ + 1]
        /\ active_item' = IF activate /\ ~existing_item(t) THEN Some(t) ELSE active_item
        /\ emitted' = EmitStopped(ClientId, tasks[i].event)
        /\ tasks' = [tasks EXCEPT ![i] = AfterApply(tasks[i], active_item')]
        /\ ignored' = FALSE
        /\ logged' = <<>>
        /\ UNCHANGED <<session_vars, clears, highlights, crashed>>

\* the StackTrace response arrives
StackTraceResponse(i, ok, stack_frames) ==
    /\ ~crashed
    /\ tasks[i].pc = "stackTrace"
    /\ IF ~ok
       THEN ReconcileFail(i, <<>>)
       ELSE IF stack_frames = <<>>
       THEN Panic
       ELSE TaskStep(i, [tasks[i] EXCEPT !.pc = "scopes",
                                         !.frames = stack_frames,
                                         !.got = { <<>> },
                                         !.pending = ScopeRequests(stack_frames)])

\* a Scopes response arrives; after the last one the root fetches start
ScopesResponse(i, n, ok, activate) ==
    /\ ~crashed
    /\ tasks[i].pc = "scopes"
    /\ n \in tasks[i].pending
    /\ IF ~ok
       THEN ReconcileFail(i, n)
       ELSE IF tasks[i].pending # {n}
       THEN TaskStep(i, [tasks[i] EXCEPT !.pending = @ \ {n},
                                         !.got = @ \cup {n}])
       ELSE IF RootRequests(tasks[i].frames) = {}
       THEN ReconcileApply(i, activate)
       ELSE TaskStep(i, [tasks[i] EXCEPT !.pc = "variables",
                                         !.pending = RootRequests(tasks[i].frames),
                                         !.got = @ \cup {n}])

\* as PendingAfter, with the nested fetches started one after the other
PendingAfterSequential(task, n) ==
    LET children == ChildRequests(task.frames, n)
    IN  (task.pending \ {n}) \cup
        ( IF children = {} THEN {}
          ELSE { CHOOSE c \in children :
                    \A d \in children : c[Len(c)] <= d[Len(d)] } )

\* the requests in flight after the response to n has been handled
PendingAfter(task, n) ==
    (task.pending \ {n}) \cup ChildRequests(task.frames, n)

\* a Variables response arrives: the nested fetches start, or all is joined
VariablesResponse(i, n, ok, activate) ==
    /\ ~crashed
    /\ tasks[i].pc = "variables"
    /\ n \in tasks[i].pending
    /\ IF ~ok
       THEN ReconcileFail(i, n)
       ELSE IF PendingAfter(tasks[i], n) = {}
       THEN ReconcileApply(i, activate)
       ELSE TaskStep(i, [tasks[i] EXCEPT !.pending = PendingAfter(tasks[i], n),
                                         !.got = @ \cup {n}])

(***************************************************************************)
(* go_to_stack_frame(workspace, current_stack_frame, client, true, cx),    *)
(* spawned by the reconciliation and awaited by it                         *)
(***************************************************************************)
\* the orders in which client.thread_states().values() may yield the entries
ValueOrders(map) ==
    { o \in [1..Cardinality(DOMAIN map) -> DOMAIN map] :
        \A a, b \in DOMAIN o : a # b => o[a] # o[b] }

\* the frames remove_highlights makes a future for, in order
AllStackFrames(map, order) ==
    ConcatAll([k \in 1..Len(order) |-> map[order[k]].stack_frames])

\* project_path_for_absolute_path finds the current frame's file
TargetResolves(task) == task.current[1].source[1] \in ProjectPaths

\* the task while open_path_preview runs
NavOpening(task) == [task EXCEPT !.pc = "nav_open", !.batch = <<>>, !.opening = {}]

\* the navigation without the removal of the highlights
NavStartWithoutClear(i, order) ==
    /\ ~crashed
    /\ tasks[i].pc = "nav_spawned"
    /\ order \in ValueOrders(thread_states)
    /\ IF tasks[i].current[1].source = NoneOpt
       THEN Panic
       ELSE IF TargetResolves(tasks[i])
       THEN TaskStep(i, NavOpening(tasks[i]))
       ELSE TaskError(i, <<>>)

\* the first poll: the unwrap of the path, then remove_highlights up to its
\* first await
NavStart(i, order) ==
    /\ ~crashed
    /\ tasks[i].pc = "nav_spawned"
    /\ order \in ValueOrders(thread_states)
    /\ LET batch == AllStackFrames(thread_states, order)
       IN  IF tasks[i].current[1].source = NoneOpt
           THEN Panic
           ELSE IF batch = <<>>
           THEN IF TargetResolves(tasks[i])
                THEN TaskStep(i, NavOpening(tasks[i]))
                ELSE TaskError(i, <<>>)
           ELSE IF FirstPoll(batch) = "panic"
           THEN Panic
           ELSE IF FirstPoll(batch) = "err"
           THEN TaskError(i, <<>>)
           ELSE TaskStep(i, [tasks[i] EXCEPT !.pc = "nav_clearing",
                                             !.batch = batch,
                                             !.opening = 1..Len(batch)])

\* the open_path of one remove_editor_highlight future resolves: on success
\* the editor's highlights are cleared; after the last one the current
\* frame's path is resolved and opened, or the task ends with the error of
\* a path outside the project
NavClearDone(i, k, ok) ==
    /\ ~crashed
    /\ tasks[i].pc = "nav_clearing"
    /\ k \in tasks[i].opening
    /\ IF ~ok
       THEN TaskError(i, <<>>)
       ELSE /\ highlights' =
                 ClearRowHighlights(highlights, tasks[i].batch[k].source[1])
            /\ tasks' = [tasks EXCEPT ![i] =
                   IF tasks[i].opening # {k}
                   THEN [tasks[i] EXCEPT !.opening = @ \ {k}]
                   ELSE IF TargetResolves(tasks[i])
                   THEN NavOpening(tasks[i])
                   ELSE IdleTask]
            /\ ignored' = FALSE
            /\ logged' = IF tasks[i].opening = {k} /\ ~TargetResolves(tasks[i])
                          THEN <<tasks[i].pc, <<>> >> ELSE <<>>
            /\ emitted' = <<>>
            /\ UNCHANGED <<session_vars, thread_states, clears, items,
                           active_item, crashed>>

\* open_path_preview resolves: editor.go_to_line places the highlight
NavOpenDone(i, ok) ==
    /\ ~crashed
    /\ tasks[i].pc = "nav_open"
    /\ IF ~ok
       THEN TaskError(i, <<>>)
       ELSE /\ highlights' = GoToLine(highlights,
                                      tasks[i].current[1].source[1],
                                      tasks[i].current[1].line - 1)
            /\ tasks' = [tasks EXCEPT ![i] = IdleTask]
            /\ ignored' = FALSE
            /\ logged' = <<>>
            /\ emitted' = <<>>
            /\ UNCHANGED <<session_vars, thread_states, clears, items,
                           active_item, crashed>>

(***************************************************************************)
(* handle_continued_event                                                  *)
(***************************************************************************)
\* every entry's status set to Running
AllRunning(map) == [t \in DOMAIN map |-> [map[t] EXCEPT !.status = "Running"]]

\* as Continued, with all_threads_continued read as true
ContinuedAllThreads(map, event) == AllRunning(map)

\* the store after handle_continued_event
Continued(map, event) ==
    IF UnwrapOr(event.all_threads_continued, FALSE)
    THEN AllRunning(map)
    ELSE update_thread_state_status(map, event.thread_id, "Running")

\* the reconciliations in flight, those of the threads that the event
\* resumes being marked
Resumed(event) ==
    [i \in TaskIds |->
        IF /\ tracking
           /\ tasks[i].pc \in {"spawned", "stackTrace", "scopes", "variables"}
           /\ \/ UnwrapOr(event.all_threads_continued, FALSE)
              \/ tasks[i].thread_id = event.thread_id
        THEN [tasks[i] EXCEPT !.resumed = TRUE] ELSE tasks[i]]

ContinuedEvent(event) ==
    /\ ~crashed
    /\ thread_states' = Continued(thread_states, event)
    /\ tasks' = Resumed(event)
    /\ ignored' = FALSE
    /\ logged' = <<>>
    /\ emitted' = <<>>
    /\ UNCHANGED <<session_vars, clears, items, active_item,
                   highlights, crashed>>

(***************************************************************************)
(* handle_thread_event, and remove_highlights_for_thread in its task       *)
(***************************************************************************)
\* as ThreadStarted, with the entry of a known thread kept
ThreadStartedKeeps(map, thread_id) ==
    IF thread_id \in DOMAIN map THEN map ELSE Insert(map, thread_id, DefaultThreadState)

\* the store after a Thread event with reason Started
ThreadStarted(map, thread_id) == Insert(map, thread_id, DefaultThreadState)

\* the store after a Thread event with another reason
ThreadEnded(map, thread_id) == update_thread_state_status(map, thread_id, "Ended")

\* the frames remove_highlights_for_thread makes a future for
ThreadStackFrames(map, thread_id) ==
    IF thread_id \in DOMAIN map THEN map[thread_id].stack_frames ELSE <<>>

\* the task spawned for a reason other than Started
SpawnClear(map, event) ==
    [IdleClear EXCEPT !.pc = "spawned",
                      !.thread_id = event.thread_id,
                      !.at_event = ThreadStackFrames(map, event.thread_id)]

ThreadEvent(event) ==
    /\ ~crashed
    /\ IF event.reason = "started"
       THEN /\ thread_states' = ThreadStarted(thread_states, event.thread_id)
            /\ UNCHANGED clears
       ELSE /\ FreeClears # {}
            /\ thread_states' = ThreadEnded(thread_states, event.thread_id)
            /\ clears' = [clears EXCEPT ![Min(FreeClears)] =
                              SpawnClear(thread_states, event)]
    /\ ignored' = FALSE
    /\ logged' = <<>>
    /\ emitted' = << <<"Thread", ClientId, event>> >>
    /\ UNCHANGED <<session_vars, tasks, items, active_item, highlights,
                   crashed>>

ClearStep(c, clear) ==
    /\ clears' = [clears EXCEPT ![c] = clear]
    /\ ignored' = FALSE
    /\ logged' = <<>>
    /\ emitted' = <<>>
    /\ UNCHANGED <<session_vars, thread_states, tasks, items, active_item,
                   highlights, crashed>>

\* the task ends with an error, which detach_and_log_err logs
ClearError(c) ==
    /\ clears' = [clears EXCEPT ![c] = IdleClear]
    /\ ignored' = FALSE
    /\ logged' = <<"remove_highlights_for_thread", <<>> >>
    /\ emitted' = <<>>
    /\ UNCHANGED <<session_vars, thread_states, tasks, items, active_item,
                   highlights, crashed>>

\* the first poll of the task: the frames are read from the store now
ClearStart(c) ==
    /\ ~crashed
    /\ clears[c].pc = "spawned"
    /\ LET batch == ThreadStackFrames(thread_states, clears[c].thread_id)
       IN  IF batch = <<>>
           THEN ClearStep(c, IdleClear)
           ELSE IF FirstPoll(batch) = "panic"
           THEN Panic
           ELSE IF FirstPoll(batch) = "err"
           THEN ClearError(c)
           ELSE ClearStep(c, [clears[c] EXCEPT !.pc = "clearing",
                                               !.batch = batch,
                                               !.opening = 1..Len(batch)])

\* the open_path of one remove_editor_highlight future resolves
ClearOpenDone(c, k, ok) ==
    /\ ~crashed
    /\ clears[c].pc = "clearing"
    /\ k \in clears[c].opening
    /\ IF ~ok
       THEN ClearError(c)
       ELSE /\ highlights' =
                 ClearRowHighlights(highlights, clears[c].batch[k].source[1])
            /\ clears' = [clears EXCEPT ![c] =
                   IF clears[c].opening # {k}
                   THEN [clears[c] EXCEPT !.opening = @ \ {k}]
                   ELSE IdleClear]
            /\ ignored' = FALSE
            /\ logged' = <<>>
            /\ emitted' = <<>>
            /\ UNCHANGED <<session_vars, thread_states, tasks, items,
                           active_item, crashed>>

(***************************************************************************)
(* The user selects the panel item of a thread                             *)
(***************************************************************************)
ActivateItem(t) ==
    /\ ~crashed
    /\ items[t] > 0
    /\ active_item # Some(t)
    /\ active_item' = Some(t)
    /\ ignored' = FALSE
    /\ logged' = <<>>
    /\ emitted' = <<>>
    /\ UNCHANGED <<session_vars, thread_states, tasks, clears, items,
                   highlights, crashed>>

(***************************************************************************)
(* Session lifecycle                                                       *)
(***************************************************************************)
\* a request issued by a task of the panel: to the adapter, or (commands
\* "setBreakpoints" and "stop_debug_adapter_client") to the project; result
\* is "pending" until the answer arrives, then "ok" or "err"
Request(task, command, arguments) ==
    [ task |-> task, command |-> command, arguments |-> arguments,
      result |-> "pending" ]

\* the requests after the answer to the pending request of a task
Answered(requests, task, ok) ==
    [ n \in DOMAIN requests |->
        IF requests[n].task = task /\ requests[n].result = "pending"
        THEN [requests[n] EXCEPT !.result = IF ok THEN "ok" ELSE "err"]
        ELSE requests[n] ]

\* the StartDebugging reverse requests of the adapter: without arguments
\* (they do not deserialize) or with a configuration
StartDebuggingRequests ==
    { [arguments |-> NoneOpt] }
        \cup { [arguments |-> Some([configuration |-> c])] : c \in Configurations }

\* the other order of the two merges: the stored arguments over the
\* configuration of the request
ChildConfigurationStoredWins(configuration) ==
    LET json == merge_json_value_into(configuration, EmptyObject)
    IN  IF config.request_args # NoneOpt
        THEN merge_json_value_into(config.request_args[1], json)
        ELSE json

\* the json handed to the child session
ChildConfiguration(configuration) ==
    LET json == IF config.request_args # NoneOpt
                THEN merge_json_value_into(config.request_args[1], EmptyObject)
                ELSE EmptyObject
    IN  merge_json_value_into(configuration, json)

\* handle_start_debugging_request; `from` is a history field: the
\* configuration of the request
StartDebugging(request) ==
    /\ ~crashed
    /\ IF request.arguments = NoneOpt
       THEN /\ logged' = <<"start_debugging", <<>> >>
            /\ UNCHANGED child
       ELSE /\ child' = Some([ config |-> config,
                               request_args |->
                                 ChildConfiguration(request.arguments[1].configuration),
                               from |-> request.arguments[1].configuration ])
            /\ logged' = <<>>
    /\ ignored' = FALSE
    /\ emitted' = <<>>
    /\ UNCHANGED <<thread_states, tasks, clears, items, active_item,
                   highlights, crashed, repl_vars, tracking, closing, config, sent,
                   exits,
                   terms, starting,
                   initializing, teardown>>

\* handle_output_event
OutputEvents == { [category |-> "stdout", output |-> "out"],
                  [category |-> "stderr", output |-> "err"] }

\* the handler drops the event
OutputEventDropped(event) ==
    /\ ~crashed
    /\ emitted' = <<>>
    /\ ignored' = FALSE
    /\ logged' = <<>>
    /\ UNCHANGED <<thread_states, tasks, clears, items, active_item,
                   highlights, crashed>>
    /\ UNCHANGED session_vars

OutputEvent(event) ==
    /\ ~crashed
    /\ emitted' = << <<"Output", ClientId, event>> >>
    /\ ignored' = FALSE
    /\ logged' = <<>>
    /\ UNCHANGED <<thread_states, tasks, clears, items, active_item,
                   highlights, crashed>>
    /\ UNCHANGED session_vars

\* a step of a session task that leaves the panel's store and editors alone
SessionStep ==
    /\ ignored' = FALSE
    /\ emitted' = <<>>
    /\ UNCHANGED <<thread_states, tasks, clears, items, active_item,
                   highlights, crashed>>

\* project::Event::DebugClientStarted, emitted once for the client: the
\* task is spawned
DebugClientStarted ==
    /\ ~crashed
    /\ starting = "idle"
    /\ starting' = "spawned"
    /\ logged' = <<>>
    /\ SessionStep
    /\ UNCHANGED <<repl_vars, tracking, closing, config, sent, child, exits, terms, initializing, teardown>>

\* the first poll of the task: client.initialize() is sent
StartingPoll ==
    /\ ~crashed
    /\ starting = "spawned"
    /\ Len(sent) < MaxSent
    /\ sent' = Append(sent, Request("starting", "initialize", NoneOpt))
    /\ starting' = "initialize"
    /\ logged' = <<>>
    /\ SessionStep
    /\ UNCHANGED <<repl_vars, tracking, closing, config, child, exits, terms, initializing, teardown>>

\* the request the task sends after initialize: both kinds send launch
StartRequestAlwaysLaunch ==
    Request("starting", "launch", config.request_args)

\* the request the task sends after initialize, by client.config().request,
\* with client.request_args()
StartRequest ==
    Request("starting",
            IF config.request = "Launch" THEN "launch" ELSE "attach",
            config.request_args)

\* the response to initialize: on an error the task ends and the error is
\* logged, otherwise launch or attach is sent
InitializeResponse(ok) ==
    /\ ~crashed
    /\ starting = "initialize"
    /\ Len(sent) < MaxSent
    /\ IF ok
       THEN /\ sent' = Append(Answered(sent, "starting", TRUE), StartRequest)
            /\ starting' = "request"
            /\ logged' = <<>>
       ELSE /\ sent' = Answered(sent, "starting", FALSE)
            /\ starting' = "failed"
            /\ logged' = <<"starting", <<>> >>
    /\ SessionStep
    /\ UNCHANGED <<repl_vars, tracking, closing, config, child, exits, terms, initializing, teardown>>

\* the response to launch or attach: the task ends
StartRequestResponse(ok) ==
    /\ ~crashed
    /\ starting = "request"
    /\ sent' = Answered(sent, "starting", ok)
    /\ starting' = IF ok THEN "done" ELSE "failed"
    /\ logged' = IF ok THEN <<>> ELSE <<"starting", <<>> >>
    /\ SessionStep
    /\ UNCHANGED <<repl_vars, tracking, closing, config, child, exits, terms, initializing, teardown>>

\* handle_initialized_event: the task is spawned
InitializedEvent ==
    /\ ~crashed
    /\ initializing = "idle"
    /\ initializing' = "spawned"
    /\ logged' = <<>>
    /\ SessionStep
    /\ UNCHANGED <<repl_vars, tracking, closing, config, sent, child, exits, terms, starting, teardown>>

\* the first poll of the task: project.send_breakpoints(client) is started
InitializedPoll ==
    /\ ~crashed
    /\ initializing = "spawned"
    /\ Len(sent) < MaxSent
    /\ sent' = Append(sent, Request("initialized", "setBreakpoints", NoneOpt))
    /\ initializing' = "breakpoints"
    /\ logged' = <<>>
    /\ SessionStep
    /\ UNCHANGED <<repl_vars, tracking, closing, config, child, exits, terms, starting, teardown>>

\* the task goes on to configurationDone whatever send_breakpoints returned
BreakpointsOutcomeIgnored(ok) == TRUE

\* task.await?: the task goes on only when send_breakpoints succeeded
BreakpointsOutcome(ok) == ok

\* the task of send_breakpoints completes: on an error the task ends and
\* the error is logged, otherwise configurationDone is sent
BreakpointsDone(ok) ==
    /\ ~crashed
    /\ initializing = "breakpoints"
    /\ Len(sent) < MaxSent
    /\ IF BreakpointsOutcome(ok)
       THEN /\ sent' = Append(Answered(sent, "initialized", ok),
                         Request("initialized", "configurationDone", NoneOpt))
            /\ initializing' = "configurationDone"
            /\ logged' = <<>>
       ELSE /\ sent' = Answered(sent, "initialized", ok)
            /\ initializing' = "failed"
            /\ logged' = <<"initialized", <<>> >>
    /\ SessionStep
    /\ UNCHANGED <<repl_vars, tracking, closing, config, child, exits, terms, starting, teardown>>

\* the response to configurationDone: the task ends
ConfigurationDoneResponse(ok) ==
    /\ ~crashed
    /\ initializing = "configurationDone"
    /\ sent' = Answered(sent, "initialized", ok)
    /\ initializing' = IF ok THEN "done" ELSE "failed"
    /\ logged' = IF ok THEN <<>> ELSE <<"initialized", <<>> >>
    /\ SessionStep
    /\ UNCHANGED <<repl_vars, tracking, closing, config, child, exits, terms, starting, teardown>>

(***************************************************************************)
(* Exited and Terminated events                                            *)
(***************************************************************************)
\* handle_exited_event: the task is spawned
ExitedEvent ==
    /\ ~crashed
    /\ exits < MaxExits
    /\ exits' = exits + 1
    /\ teardown' = TRUE
    /\ logged' = <<>>
    /\ SessionStep
    /\ UNCHANGED <<repl_vars, tracking, closing, config, sent, child, terms, starting, initializing>>

\* the store is emptied
MarkExitedRemoves(map) == EmptyMap

\* only the stopped threads are marked
MarkExitedStopped(map) ==
    [t \in DOMAIN map |->
        IF map[t].status = "Stopped"
        THEN [map[t] EXCEPT !.status = "Exited"] ELSE map[t]]

\* for thread_state in client.thread_states().values_mut()
MarkExited(map) ==
    [t \in DOMAIN map |-> [map[t] EXCEPT !.status = "Exited"]]

\* the one poll of the task of an Exited event
ExitedPoll ==
    /\ ~crashed
    /\ exits > 0
    /\ exits' = exits - 1
    /\ thread_states' = MarkExited(thread_states)
    /\ ignored' = FALSE
    /\ logged' = <<>>
    /\ emitted' = <<>>
    /\ UNCHANGED <<tasks, clears, items, active_item, highlights, crashed>>
    /\ UNCHANGED <<repl_vars, tracking, closing, config, sent, child, terms, starting, initializing, teardown>>

\* the Terminated events: without body, without restart data, with it
TerminatedEvents ==
    { NoneOpt, Some([restart |-> NoneOpt]) }
        \cup { Some([restart |-> Some(r)]) : r \in RestartArgs }

FreeTerms == { k \in TermIds : terms[k].pc = "idle" }

\* handle_terminated_event: restart_args is taken from the event and the
\* task is spawned
TerminatedEvent(event) ==
    /\ ~crashed
    /\ FreeTerms # {}
    /\ Len(sent) + 2 <= MaxSent
    /\ LET k == Min(FreeTerms)
           restart_args == IF event = NoneOpt THEN NoneOpt ELSE event[1].restart
       IN  terms' = [terms EXCEPT ![k] =
                        [IdleTerm EXCEPT !.pc = "spawned", !.restart = restart_args]]
    /\ teardown' = TRUE
    /\ logged' = <<>>
    /\ SessionStep
    /\ UNCHANGED <<repl_vars, tracking, closing, config, sent, child, exits, starting, initializing>>

\* the task ends with an error, which detach_and_log_err logs: the error
\* of its pending request if it has one
TermError(k) ==
    /\ terms' = [terms EXCEPT ![k] = IdleTerm]
    /\ sent' = Answered(sent, "terminated", FALSE)
    /\ logged' = <<"terminated", <<>> >>
    /\ SessionStep
    /\ UNCHANGED <<repl_vars, tracking, closing, config, child, exits, starting, initializing, teardown>>

\* what the task does once remove_highlights has returned Ok: with restart
\* data client.disconnect(Some(true), None, None) is sent, without it the
\* project is asked to stop the client and the task ends
TermAfterHighlights(k) ==
    IF terms[k].restart # NoneOpt
    THEN /\ sent' = Append(sent, Request("terminated", "disconnect", Some(TRUE)))
         /\ terms' = [terms EXCEPT ![k] =
                [@ EXCEPT !.pc = "disconnect", !.batch = <<>>, !.opening = {}]]
    ELSE /\ sent' = Append(sent,
                     [Request("terminated", "stop_debug_adapter_client",
                              Some(ClientId)) EXCEPT !.result = "ok"])
         /\ terms' = [terms EXCEPT ![k] = IdleTerm]

\* the first poll of the task: remove_highlights reads the frames of every
\* thread from the store and polls the joined clears once
TermStart(k, order) ==
    /\ ~crashed
    /\ terms[k].pc = "spawned"
    /\ order \in ValueOrders(thread_states)
    /\ LET batch == AllStackFrames(thread_states, order)
       IN  IF batch = <<>>
           THEN /\ TermAfterHighlights(k)
                /\ logged' = <<>>
                /\ SessionStep
                /\ UNCHANGED <<repl_vars, tracking, closing, config, child, exits, starting, initializing,
                               teardown>>
           ELSE IF FirstPoll(batch) = "panic"
           THEN Panic /\ UNCHANGED session_vars
           ELSE IF FirstPoll(batch) = "err"
           THEN TermError(k)
           ELSE /\ terms' = [terms EXCEPT ![k] =
                       [@ EXCEPT !.pc = "clearing", !.batch = batch,
                                 !.opening = 1..Len(batch)]]
                /\ logged' = <<>>
                /\ SessionStep
                /\ UNCHANGED <<repl_vars, tracking, closing, config, sent, child, exits, starting,
                               initializing, teardown>>

\* the open_path of one remove_editor_highlight future resolves: on success
\* the editor's highlights are cleared, and after the last one the task
\* goes on; on an error the task ends
TermClearDone(k, j, ok) ==
    /\ ~crashed
    /\ terms[k].pc = "clearing"
    /\ j \in terms[k].opening
    /\ IF ~ok
       THEN TermError(k)
       ELSE /\ highlights' =
                 ClearRowHighlights(highlights, terms[k].batch[j].source[1])
            /\ IF terms[k].opening # {j}
               THEN /\ terms' = [terms EXCEPT ![k].opening = @ \ {j}]
                    /\ UNCHANGED sent
               ELSE TermAfterHighlights(k)
            /\ ignored' = FALSE
            /\ logged' = <<>>
            /\ emitted' = <<>>
            /\ UNCHANGED <<thread_states, tasks, clears, items, active_item,
                           crashed>>
            /\ UNCHANGED <<repl_vars, tracking, closing, config, child, exits, starting, initializing,
                           teardown>>

\* the request after the disconnect, by client.request_type(), with the
\* restart data
RestartRequest(k) ==
    Request("terminated",
            IF config.request = "Launch" THEN "launch" ELSE "attach",
            terms[k].restart)

\* the response to disconnect: on an error the task ends, otherwise launch
\* or attach is sent
DisconnectResponse(k, ok) ==
    /\ ~crashed
    /\ terms[k].pc = "disconnect"
    /\ IF ok
       THEN /\ sent' = Append(Answered(sent, "terminated", TRUE),
                              RestartRequest(k))
            /\ terms' = [terms EXCEPT ![k].pc = "restart"]
            /\ logged' = <<>>
            /\ SessionStep
            /\ UNCHANGED <<repl_vars, tracking, closing, config, child, exits, starting, initializing,
                           teardown>>
       ELSE TermError(k)

\* the response to launch or attach: the task ends
RestartResponse(k, ok) ==
    /\ ~crashed
    /\ terms[k].pc = "restart"
    /\ IF ok
       THEN /\ terms' = [terms EXCEPT ![k] = IdleTerm]
            /\ sent' = Answered(sent, "terminated", TRUE)
            /\ logged' = <<>>
            /\ SessionStep
            /\ UNCHANGED <<repl_vars, tracking, closing, config, child, exits, starting, initializing,
                           teardown>>
       ELSE TermError(k)

(***************************************************************************)
(* handle_pane_event: the pane has removed the panel item of a thread      *)
(***************************************************************************)
\* client.thread_state_by_id
thread_state_by_id(map, thread_id) == map[thread_id]

\* the handler terminates whatever the status is
NotYetEndedAlways(thread_status) == TRUE

\* only terminate thread if the thread has not yet ended
NotYetEnded(thread_status) ==
    thread_status # "Ended" /\ thread_status # "Exited"

\* the items of the pane once one of thread t is removed
WithoutItem(t) == [items EXCEPT ![t] = @ - 1]

\* pane::Event::RemovedItem for an item of thread t: the pane has taken
\* the item out and, when it was the active one, activated another if one
\* is left; the handler reads the thread's status and spawns the
\* terminateThreads task
RemovedItem(t) ==
    /\ ~crashed
    /\ items[t] > 0
    /\ t \notin closing
    /\ Len(sent) + Cardinality(closing) < MaxSent
    /\ items' = WithoutItem(t)
    /\ active_item' \in
          IF active_item # Some(t) THEN {active_item}
          ELSE IF \A u \in ThreadIds : WithoutItem(t)[u] = 0 THEN {NoneOpt}
          ELSE {Some(u) : u \in {v \in ThreadIds : WithoutItem(t)[v] > 0}}
    /\ closing' = IF NotYetEnded(thread_state_by_id(thread_states, t).status)
                  THEN closing \cup {t} ELSE closing
    /\ ignored' = FALSE
    /\ logged' = <<>>
    /\ emitted' = <<>>
    /\ UNCHANGED <<thread_states, tasks, clears, highlights, crashed, config,
                   sent, child, exits, terms, starting, initializing,
                   teardown, tracking, repl_vars>>

\* the first poll of the task: client.terminate_threads sends the request
TerminateThreadsPoll(t) ==
    /\ ~crashed
    /\ t \in closing
    /\ closing' = closing \ {t}
    /\ sent' = Append(sent,
                 Request("removed_item", "terminateThreads", Some(<<t>>)))
    /\ logged' = <<>>
    /\ SessionStep
    /\ UNCHANGED <<config, child, exits, terms, starting, initializing,
                   teardown, tracking, repl_vars>>

\* the terminateThreads requests that wait for their answer
PendingTerminateThreads ==
    { n \in DOMAIN sent :
        sent[n].task = "removed_item" /\ sent[n].result = "pending" }

\* the adapter answers the oldest of them; detach_and_log_err logs an error
TerminateThreadsResponse(ok) ==
    /\ ~crashed
    /\ PendingTerminateThreads # {}
    /\ LET n == Min(PendingTerminateThreads)
       IN  /\ sent' = [sent EXCEPT ![n].result = IF ok THEN "ok" ELSE "err"]
           /\ logged' = IF ok THEN <<>>
                        ELSE <<"terminateThreads", sent[n].arguments[1]>>
    /\ SessionStep
    /\ UNCHANGED <<repl_vars, tracking, closing, config, child, exits, terms, starting,
                   initializing, teardown>>

(***************************************************************************)
(* The repl Session: kernel start, execute, shutdown and restart           *)
(***************************************************************************)
\* the state of the debugger panel
panel_vars == <<thread_states, tasks, clears, items, active_item, highlights,
                crashed, ignored, logged, emitted, config, sent, child, exits,
                terms, starting, initializing, teardown, closing,
                tracking>>

\* a message for the kernel process `to`
Message(to, content, restart, msg_id) ==
    [ to |-> to, content |-> content, restart |-> restart, msg_id |-> msg_id ]

\* the ids of the messages that execute builds
MsgIds == 1..MaxRequests

\* the messages that tasks in flight may still hand to request_tx
Reserved ==
    Len(request_tx) + Cardinality(queued)
       + Cardinality({ k \in StopIds : stops[k].pc = "spawned" })

\* the pending task of start_kernel for process id has not resolved and is
\* still held, by the session's StartingKernel or by a queued execution
StartPending(id) ==
    /\ processes[id] = "starting"
    /\ kernel = StartingKernel(id) \/ \E q \in queued : q.wait = id

\* the pending task of start_kernel resolves: the kernel future has
\* answered Ok (the process runs) or Err
KernelStarted(id, ok) ==
    /\ StartPending(id)
    /\ processes' = [processes EXCEPT ![id] = IF ok THEN "alive" ELSE "failed"]
    /\ kernel' = IF ok THEN RunningKernel(id) ELSE ErroredLaunch
    /\ UNCHANGED <<blocks, request_tx, stops, queued, editor_blocks, last_call,
                   panel_vars>>

\* as send, whatever the kernel state
send_in_any_state(message) ==
    Append(request_tx, [message EXCEPT !.to = kernel.id])

\* Session::send
send(message) ==
    IF kernel.state = "RunningKernel"
    THEN Append(request_tx, [message EXCEPT !.to = kernel.id])
    ELSE request_tx

\* the editor's blocks after editor.remove_blocks(block_ids)
remove_blocks(held, block_ids) == held \ block_ids

\* every block is retained
blocks_to_remove_none(range) == {}

\* the blocks self.blocks.retain drops
blocks_to_remove(range) == { b \in blocks : overlaps(range, b.code_range) }

\* Session::execute on the cell of `range`; `created` is whether
\* EditorBlock::new returns Ok (the editor has a workspace)
execute(code, range, created) ==
    IF code = ""
    THEN UNCHANGED vars
    ELSE /\ Reserved < MaxRequests
         /\ LET used == { b.msg_id : b \in blocks } \cup { q.msg_id : q \in queued }
                           \cup { request_tx[n].msg_id : n \in DOMAIN request_tx }
                           \cup editor_blocks
                msg_id == Min(MsgIds \ used)
                removed == { b.block_id : b \in blocks_to_remove(range) }
            IN  /\ MsgIds \ used # {}
                /\ IF created
                   THEN /\ blocks' = (blocks \ blocks_to_remove(range))
                                        \cup { [msg_id |-> msg_id, code_range |-> range,
                                                block_id |-> msg_id] }
                        /\ editor_blocks' =
                              remove_blocks(editor_blocks, removed) \cup {msg_id}
                        /\ request_tx' = send(Message(0, "execute", FALSE, msg_id))
                        /\ queued' = IF kernel.state = "StartingKernel"
                                     THEN queued \cup { [msg_id |-> msg_id,
                                                         wait |-> kernel.id] }
                                     ELSE queued
                   ELSE /\ blocks' = blocks \ blocks_to_remove(range)
                        /\ editor_blocks' = remove_blocks(editor_blocks, removed)
                        /\ UNCHANGED <<request_tx, queued>>
         /\ UNCHANGED <<kernel, processes, stops, last_call, panel_vars>>

\* the task execute spawned while the kernel was starting: the start has
\* resolved, the message is sent if the kernel is running now
QueuedSend(q) ==
    /\ q \in queued
    /\ processes[q.wait] # "starting"
    /\ request_tx' = send(Message(0, "execute", FALSE, q.msg_id))
    /\ queued' = queued \ {q}
    /\ UNCHANGED <<kernel, blocks, processes, stops, editor_blocks, last_call,
                   panel_vars>>

\* the on_close callback of a block
on_close(b) ==
    /\ b \in blocks
    /\ blocks' = blocks \ {b}
    /\ editor_blocks' = remove_blocks(editor_blocks, {b.block_id})
    /\ UNCHANGED <<kernel, processes, request_tx, stops, queued, last_call,
                   panel_vars>>

\* Session::clear_outputs: the blocks of the map are removed from the editor
\* and the map is emptied
ClearOutputs ==
    /\ editor_blocks' = remove_blocks(editor_blocks, { b.block_id : b \in blocks })
    /\ blocks' = {}

\* Session::clear_outputs invoked by the host
clear_outputs ==
    /\ blocks # {}
    /\ ClearOutputs
    /\ UNCHANGED <<kernel, processes, request_tx, stops, queued, last_call,
                   panel_vars>>

\* Session::start_kernel: a new kernel process is launched
start_kernel ==
    /\ kernel' = StartingKernel(NextKernel)
    /\ processes' = [processes EXCEPT ![NextKernel] = "starting"]

FreeStops == { k \in StopIds : stops[k].pc = "idle" }

\* the task that shutdown or restart spawns for the running kernel;
\* kernel.force_shutdown has been called and has returned `forced`
SpawnStop(kind) ==
    [ pc |-> "spawned", kind |-> kind, id |-> kernel.id, forced |-> "pending" ]

\* Session::shutdown
shutdown ==
    /\ IF kernel.state = "RunningKernel"
       THEN /\ FreeStops # {}
            /\ Reserved < MaxRequests
            /\ stops' = [stops EXCEPT ![Min(FreeStops)] = SpawnStop("shutdown")]
            /\ kernel' = ShuttingDown
       ELSE /\ kernel' = Shutdown
            /\ UNCHANGED stops
    /\ last_call' = [call |-> "shutdown", found |-> kernel.state]
    /\ UNCHANGED <<blocks, processes, request_tx, queued, editor_blocks,
                   panel_vars>>

\* the kernel processes that restarts in flight will still launch
RestartsInFlight ==
    Cardinality({ k \in StopIds : stops[k].pc # "idle" /\ stops[k].kind = "restart" })

\* as AlreadyRestarting, with the outputs cleared
AlreadyRestartingClears ==
    /\ ClearOutputs
    /\ UNCHANGED <<kernel, processes, stops>>

\* the arm of restart for a kernel that is already Restarting
AlreadyRestarting == UNCHANGED <<kernel, blocks, processes, stops, editor_blocks>>

\* Session::restart
restart ==
    /\ IF kernel.state = "Restarting"
       THEN AlreadyRestarting
       ELSE /\ NextKernel + RestartsInFlight <= MaxKernels
            /\ IF kernel.state = "RunningKernel"
               THEN /\ FreeStops # {}
                    /\ Reserved < MaxRequests
                    /\ stops' = [stops EXCEPT ![Min(FreeStops)] = SpawnStop("restart")]
                    /\ kernel' = Restarting
                    /\ UNCHANGED <<blocks, processes, editor_blocks>>
               ELSE /\ ClearOutputs
                    /\ start_kernel
                    /\ UNCHANGED stops
    /\ last_call' = [call |-> "restart", found |-> kernel.state]
    /\ UNCHANGED <<request_tx, queued, panel_vars>>

\* the first poll of the task: the shutdown request is handed to the
\* kernel's request_tx; the task of shutdown then awaits `forced`, the task
\* of restart the timer of one second
StopStart(k) ==
    /\ stops[k].pc = "spawned"
    /\ request_tx' = Append(request_tx,
                        Message(stops[k].id, "shutdown",
                                stops[k].kind = "restart", 0))
    /\ stops' = [stops EXCEPT ![k].pc = IF stops[k].kind = "shutdown"
                                        THEN "forcing" ELSE "grace"]
    /\ UNCHANGED <<kernel, blocks, processes, queued, editor_blocks, last_call,
                   panel_vars>>

\* the process after the forced termination has acted on it
ForceShutdown(status, ok) ==
    IF ok /\ status = "alive" THEN "killed" ELSE status

\* `forced` resolves, an error being logged: the task of shutdown then
\* awaits the timer of three seconds, the task of restart clears the
\* outputs and starts a new kernel
ForcedResolves(k, ok) ==
    /\ stops[k].pc = "forcing"
    /\ IF stops[k].kind = "shutdown"
       THEN /\ stops' = [stops EXCEPT ![k].pc = "grace",
                                      ![k].forced = IF ok THEN "ok" ELSE "err"]
            /\ processes' = [processes EXCEPT ![stops[k].id] =
                                ForceShutdown(@, ok)]
            /\ UNCHANGED <<kernel, blocks, editor_blocks>>
       ELSE /\ stops' = [stops EXCEPT ![k] = IdleStop]
            /\ ClearOutputs
            /\ kernel' = StartingKernel(NextKernel)
            /\ processes' = [processes EXCEPT
                                ![stops[k].id] = ForceShutdown(@, ok),
                                ![NextKernel] = "starting"]
    /\ UNCHANGED <<request_tx, queued, last_call, panel_vars>>

\* the timer fires: the task of shutdown clears the outputs and sets the
\* kernel to Shutdown, the task of restart awaits `forced`
GraceElapsed(k) ==
    /\ stops[k].pc = "grace"
    /\ IF stops[k].kind = "shutdown"
       THEN /\ stops' = [stops EXCEPT ![k] = IdleStop]
            /\ ClearOutputs
            /\ kernel' = Shutdown
       ELSE /\ stops' = [stops EXCEPT ![k].pc = "forcing"]
            /\ UNCHANGED <<kernel, blocks, editor_blocks>>
    /\ UNCHANGED <<processes, request_tx, queued, last_call, panel_vars>>

\* a kernel process that was asked to shut down exits
ProcessExits(id) ==
    /\ processes[id] = "alive"
    /\ \E n \in DOMAIN request_tx :
          request_tx[n].to = id /\ request_tx[n].content = "shutdown"
    /\ processes' = [processes EXCEPT ![id] = "exited"]
    /\ UNCHANGED <<kernel, blocks, request_tx, stops, queued, editor_blocks,
                   last_call, panel_vars>>

(***************************************************************************)
(* Specifications                                                          *)
(***************************************************************************)
\* the polls of the highlight tasks
HighlightPolls ==
    \/ \E i \in TaskIds : \E order \in ValueOrders(thread_states) :
          NavStart(i, order)
    \/ \E i \in TaskIds, ok \in BOOLEAN : \E k \in tasks[i].opening :
          NavClearDone(i, k, ok)
    \/ \E i \in TaskIds, ok \in BOOLEAN : NavOpenDone(i, ok)
    \/ \E c \in ClearIds : ClearStart(c)
    \/ \E c \in ClearIds, ok \in BOOLEAN : \E k \in clears[c].opening :
          ClearOpenDone(c, k, ok)

\* the polls of the reconciliation tasks up to the Scopes responses, the
\* adapter answering with one of `stacks`, Pane::add_item activating the new
\* item or not as `activations`
StackPolls(stacks, activations) ==
    \/ \E i \in TaskIds : ReconcileStart(i)
    \/ \E i \in TaskIds, ok \in BOOLEAN, stack_frames \in stacks :
          StackTraceResponse(i, ok, stack_frames)
    \/ \E i \in TaskIds, ok \in BOOLEAN, activate \in activations :
          \E n \in tasks[i].pending : ScopesResponse(i, n, ok, activate)

\* the polls on the Variables responses
VariablePolls(activations) ==
    \E i \in TaskIds, ok \in BOOLEAN, activate \in activations :
       \E n \in tasks[i].pending : VariablesResponse(i, n, ok, activate)

ReconcilePolls(stacks, activations) ==
    StackPolls(stacks, activations) \/ VariablePolls(activations)

\* no reconciliation is in flight
Quiet == \A i \in TaskIds : tasks[i].pc = "idle"

\* The store and the reconciliations, up to MaxTasks of them in flight:
\* Stopped and Continued events and the start of threads, while no panel
\* item is the pane's active item (Pane::add_item leaves the active item
\* alone and the user selects none), so that no navigation is started
Next ==
    \/ \E event \in StoppedEvents : StoppedEvent(event)
    \/ \E event \in ContinuedEvents : ContinuedEvent(event)
    \/ \E t \in ThreadIds : ThreadEvent([reason |-> "started", thread_id |-> t])
    \/ ReconcilePolls(CoreStacks, {FALSE})

Spec == Init /\ [][Next]_vars

\* fetch_variables on the deeper variable trees: Stopped events only, one
\* reconciliation at a time
FetchNext ==
    \/ \E event \in StoppedEvents : Quiet /\ StoppedEvent(event)
    \/ ReconcilePolls(FetchStacks, {FALSE})

FetchSpec == Init /\ [][FetchNext]_vars

\* The highlights: Stopped and Thread events on stacks of frames without
\* scopes, one reconciliation at a time, the pane activating the items it
\* adds or the user selecting them
HighlightNext ==
    \/ \E t \in ThreadIds : Quiet /\ StoppedEvent([thread_id |-> Some(t)])
    \/ \E event \in ThreadEvents : ThreadEvent(event)
    \/ StackPolls(HighlightStacks, BOOLEAN)
    \/ HighlightPolls
    \/ \E t \in ThreadIds : ActivateItem(t)

HighlightSpec == Init /\ [][HighlightNext]_vars

\* The start of a session: the client is started and initialized, the
\* adapter asks for child sessions and sends output
LifecycleNext ==
    \/ DebugClientStarted
    \/ StartingPoll
    \/ \E ok \in BOOLEAN : InitializeResponse(ok)
    \/ \E ok \in BOOLEAN : StartRequestResponse(ok)
    \/ InitializedEvent
    \/ InitializedPoll
    \/ \E ok \in BOOLEAN : BreakpointsDone(ok)
    \/ \E ok \in BOOLEAN : ConfigurationDoneResponse(ok)
    \/ \E request \in StartDebuggingRequests : StartDebugging(request)
    \/ \E event \in OutputEvents : OutputEvent(event)

LifecycleSpec == SessionInit /\ [][LifecycleNext]_vars

\* the polls of the tasks of Exited and Terminated events
TeardownPolls ==
    \/ ExitedPoll
    \/ \E k \in TermIds : \E order \in ValueOrders(thread_states) :
          TermStart(k, order)
    \/ \E k \in TermIds, ok \in BOOLEAN : \E j \in terms[k].opening :
          TermClearDone(k, j, ok)
    \/ \E k \in TermIds, ok \in BOOLEAN : DisconnectResponse(k, ok)
    \/ \E k \in TermIds, ok \in BOOLEAN : RestartResponse(k, ok)

\* The end of a session: Exited and Terminated events while threads stop,
\* on stacks of frames without scopes; one reconciliation at a time, no
\* Stopped event once the adapter has sent Exited or Terminated, no
\* Terminated event once a task of one has issued a request, no panel item
\* active
TeardownNext ==
    \/ \E t \in ThreadIds :
          Quiet /\ ~teardown /\ StoppedEvent([thread_id |-> Some(t)])
    \/ StackPolls(TeardownStacks, {FALSE})
    \/ ExitedEvent
    \/ \E event \in TerminatedEvents : sent = <<>> /\ TerminatedEvent(event)
    \/ TeardownPolls

\* a client of either request kind, configured without request arguments
TeardownInit ==
    /\ PanelInit
    /\ tracking = FALSE
    /\ config \in { c \in Configs : c.request_args = NoneOpt }

TeardownSpec == TeardownInit /\ [][TeardownNext]_vars

\* the polls of the navigation tasks
NavPolls ==
    \/ \E i \in TaskIds : \E order \in ValueOrders(thread_states) :
          NavStart(i, order)
    \/ \E i \in TaskIds, ok \in BOOLEAN : \E k \in tasks[i].opening :
          NavClearDone(i, k, ok)
    \/ \E i \in TaskIds, ok \in BOOLEAN : NavOpenDone(i, ok)

\* The navigation after a stop: Stopped events one reconciliation at a
\* time, the pane activating the items it adds or the user selecting them,
\* on stacks whose current frame may lack a source or a project path
NavNext ==
    \/ \E t \in ThreadIds : Quiet /\ StoppedEvent([thread_id |-> Some(t)])
    \/ StackPolls(NavStacks, BOOLEAN)
    \/ NavPolls
    \/ \E t \in ThreadIds : ActivateItem(t)

NavSpec == Init /\ [][NavNext]_vars

\* the stacks of a thread that has frames
OrderStacks == CoreStacks \ { <<>> }

\* Stopped events whose reconciliations all succeed: up to MaxTasks of them
\* in flight, the adapter answering every request, in any order, no panel
\* item active
OrderNext ==
    \/ \E t \in ThreadIds : StoppedEvent([thread_id |-> Some(t)])
    \/ \E i \in TaskIds : ReconcileStart(i)
    \/ \E i \in TaskIds, stack_frames \in OrderStacks :
          StackTraceResponse(i, TRUE, stack_frames)
    \/ \E i \in TaskIds : \E n \in tasks[i].pending :
          ScopesResponse(i, n, TRUE, FALSE)
    \/ \E i \in TaskIds : \E n \in tasks[i].pending :
          VariablesResponse(i, n, TRUE, FALSE)

OrderSpec == Init /\ [][OrderNext]_vars

\* the panel with the history of Continued events kept
ResumeInit ==
    /\ PanelInit
    /\ tracking = TRUE
    /\ config = [request |-> "Launch", request_args |-> NoneOpt]

\* Threads stop and are resumed: Stopped and Continued events in any
\* order, up to MaxTasks reconciliations in flight, requests answered or
\* failed in any order, no panel item active
ResumeNext ==
    \/ \E t \in ThreadIds : StoppedEvent([thread_id |-> Some(t)])
    \/ \E event \in ContinuedEvents : ContinuedEvent(event)
    \/ ReconcilePolls(OrderStacks, {FALSE})

ResumeSpec == ResumeInit /\ [][ResumeNext]_vars

\* no task of the panel is in flight
Settled ==
    /\ Quiet
    /\ \A c \in ClearIds : clears[c].pc = "idle"
    /\ \A k \in TermIds : terms[k].pc = "idle"
    /\ exits = 0

\* Every event that touches the store, one at a time: the next event
\* arrives when the tasks of the one before have ended
StoreNext ==
    \/ \E event \in StoppedEvents : Settled /\ StoppedEvent(event)
    \/ \E event \in ContinuedEvents : Settled /\ ContinuedEvent(event)
    \/ \E event \in ThreadEvents : Settled /\ ThreadEvent(event)
    \/ Settled /\ ExitedEvent
    \/ \E event \in TerminatedEvents :
          Settled /\ sent = <<>> /\ TerminatedEvent(event)
    \/ \E event \in OutputEvents : Settled /\ OutputEvent(event)
    \/ StackPolls(TeardownStacks, {FALSE})
    \/ \E c \in ClearIds : ClearStart(c)
    \/ \E c \in ClearIds, ok \in BOOLEAN : \E k \in clears[c].opening :
          ClearOpenDone(c, k, ok)
    \/ TeardownPolls

StoreSpec == TeardownInit /\ [][StoreNext]_vars

\* the stack of a thread stopped in a.rs
PaneStacks == { <<StackFrame(6)>> }

\* The pane: the user closes and selects panel items while threads stop,
\* start and end and the debuggee exits, one event at a time; an item may
\* be closed at any moment, also while a reconciliation is in flight, up
\* to MaxClosing times
PaneNext ==
    \/ \E t \in ThreadIds : Settled /\ StoppedEvent([thread_id |-> Some(t)])
    \/ StackPolls(PaneStacks, BOOLEAN)
    \/ NavPolls
    \/ \E t \in ThreadIds : Settled /\ ActivateItem(t)
    \/ \E event \in ThreadEvents : Settled /\ ThreadEvent(event)
    \/ \E c \in ClearIds : ClearStart(c)
    \/ \E c \in ClearIds, ok \in BOOLEAN : \E k \in clears[c].opening :
          ClearOpenDone(c, k, ok)
    \/ Settled /\ ExitedEvent
    \/ ExitedPoll
    \/ \E t \in ThreadIds :
          Len(sent) + Cardinality(closing) < MaxClosing /\ RemovedItem(t)
    \/ \E t \in ThreadIds : TerminateThreadsPoll(t)
    \/ \E ok \in BOOLEAN : TerminateThreadsResponse(ok)

PaneSpec == Init /\ [][PaneNext]_vars

\* The repl session: the host executes cells, closes blocks, clears the
\* outputs, shuts the kernel down and restarts it, in any order and at any
\* moment, while kernels start, exit and are terminated
ReplNext ==
    \/ \E id \in KernelIds, ok \in BOOLEAN : KernelStarted(id, ok)
    \/ \E code \in {"", "1 + 1"}, range \in Ranges, created \in BOOLEAN :
          execute(code, range, created)
    \/ \E q \in queued : QueuedSend(q)
    \/ \E b \in blocks : on_close(b)
    \/ clear_outputs
    \/ shutdown
    \/ restart
    \/ \E k \in StopIds : StopStart(k)
    \/ \E k \in StopIds, ok \in BOOLEAN : ForcedResolves(k, ok)
    \/ \E k \in StopIds : GraceElapsed(k)
    \/ \E id \in KernelIds : ProcessExits(id)

ReplSpec == Init /\ [][ReplNext]_vars

(***************************************************************************)
(* Properties                                                              *)
(***************************************************************************)
ReconcilePcs == {"stackTrace", "scopes", "variables"}

\* this step joins the last response of task i and runs the closure
Completes(i) ==
    /\ tasks[i].pc \in {"scopes", "variables"}
    /\ tasks'[i].pc \in {"idle", "nav_spawned"}
    /\ logged' = <<>>

\* this step ends task i with the error of a failed request
Fails(i) ==
    /\ tasks[i].pc \in ReconcilePcs
    /\ tasks'[i] # tasks[i]
    /\ logged' # <<>>

\* this step is one of task i's before its closure runs
Reconciling(i) ==
    /\ tasks[i].pc \in ReconcilePcs \cup {"idle", "spawned"}
    /\ tasks'[i] # tasks[i]
    /\ ~Completes(i)

StoppedNotification(t) == <<"Stopped", ClientId, [thread_id |-> Some(t)]>>

\* C1: when a reconciliation for thread T completes with every request
\* answered, T's entry has status Stopped and its current_stack_frame_id is
\* the id of the first frame of the StackTrace response.
C1_StoppedAtFirstFrame ==
    [][\A i \in TaskIds : Completes(i) =>
          LET t == tasks[i].thread_id
          IN  /\ t \in DOMAIN thread_states'
              /\ thread_states'[t].status = "Stopped"
              /\ thread_states'[t].current_stack_frame_id = Head(tasks[i].frames).id
      ]_vars

C1_Witness ==
    /\ emitted = << StoppedNotification(1) >>
    /\ thread_states[1].status = "Stopped"
    /\ Len(thread_states[1].stack_frames) = 2
    /\ thread_states[1].current_stack_frame_id = 2

\* C2: when a reconciliation for thread T completes, T's entry holds the
\* frames of the StackTrace response in order, and its variables are keyed by
\* exactly the ids of these frames and, under each, by exactly the scopes of
\* that frame's Scopes response, each scope holding the result of
\* fetch_variables on its reference at depth 1: nothing of T's previous entry
\* is left.
C2_EntryIsTheResponses ==
    [][\A i \in TaskIds : Completes(i) =>
          LET t == tasks[i].thread_id
              frames == tasks[i].frames
              entry == thread_states'[t]
          IN  /\ entry.stack_frames = frames
              /\ DOMAIN entry.variables = { frames[k].id : k \in 1..Len(frames) }
              /\ \A k \in 1..Len(frames) :
                   LET scopes == ScopesOf(frames[k].id)
                       held == entry.variables[frames[k].id]
                   IN  /\ DOMAIN held = { scopes[j] : j \in 1..Len(scopes) }
                       /\ \A j \in 1..Len(scopes) :
                            held[scopes[j]] =
                               fetch_variables(scopes[j].variables_reference, 1)
      ]_vars

C2_Witness ==
    /\ emitted = << StoppedNotification(1) >>
    /\ thread_states[1].stack_frames = <<StackFrame(2), StackFrame(1)>>
    /\ thread_states[1].variables[1][Scope("Locals", 1)] =
          << <<1, Variable("a", 4)>>, <<2, Variable("d", 0)>>, <<1, Variable("c", 0)>> >>
    /\ thread_states[1].variables[2][Scope("Locals", 3)] = <<>>
    /\ 2 \in DOMAIN thread_states

\* C3: no step of a reconciliation before its closure changes the store, the
\* panel items or the active item, or emits anything; and when one of its
\* requests fails the task ends there, with no request left in flight and
\* none sent again.
C3_FailureLeavesAllUntouched ==
    [][\A i \in TaskIds :
          /\ Reconciling(i) =>
                /\ thread_states' = thread_states
                /\ items' = items
                /\ active_item' = active_item
                /\ emitted' = <<>>
          /\ Fails(i) => Reconciling(i) /\ tasks'[i] = IdleTask
      ]_vars

C3_Witness ==
    /\ logged = <<"variables", <<1, 1>> >>
    /\ tasks[1] = IdleTask
    /\ 1 \in DOMAIN thread_states
    /\ thread_states[1].status = "Stopped"
    /\ items[2] = 0

\* C4: a Stopped event without thread id changes nothing: no task is
\* spawned and no request sent, the store, the panel items and the
\* highlights stay, nothing is emitted and nothing is logged.
C4_NoThreadIdIsNoOp ==
    [][ignored' =>
          /\ UNCHANGED <<thread_states, tasks, clears, items, active_item,
                         highlights, crashed>>
          /\ emitted' = <<>>
          /\ logged' = <<>>
      ]_vars

C4_Witness ==
    /\ ignored
    /\ tasks[1].pc = "variables"
    /\ thread_states # EmptyMap

(***************************************************************************)
(* The variable tree of a reference, by paths: <<k>> is the k-th variable  *)
(* of the response, p \o <<m>> the m-th variable nested in the one at p    *)
(***************************************************************************)
RECURSIVE InTree(_, _)
InTree(variables_reference, p) ==
    LET response == VariablesOf(variables_reference)
    IN  /\ p[1] \in 1..Len(response)
        /\ \/ Len(p) = 1
           \/ /\ response[p[1]].variables_reference > 0
              /\ InTree(response[p[1]].variables_reference, Tail(p))

TreePaths(variables_reference) ==
    { p \in UNION { [1..h -> 1..MaxWidth] : h \in 1..MaxHeight } :
        InTree(variables_reference, p) }

RECURSIVE VariableAt(_, _)
VariableAt(variables_reference, p) ==
    LET variable == VariablesOf(variables_reference)[p[1]]
    IN  IF Len(p) = 1 THEN variable
        ELSE VariableAt(variable.variables_reference, Tail(p))

\* p comes before q in pre-order: p is an ancestor of q, or p branches off
\* to an earlier sibling
Before(p, q) ==
    \/ Len(p) < Len(q) /\ SubSeq(q, 1, Len(p)) = p
    \/ \E k \in 1..Len(p) :
          /\ k <= Len(q)
          /\ p[k] < q[k]
          /\ SubSeq(p, 1, k - 1) = SubSeq(q, 1, k - 1)

\* out lists every variable of the tree once, in pre-order, with its depth
IsPreorder(out, variables_reference, depth) ==
    LET paths == TreePaths(variables_reference)
    IN  /\ Len(out) = Cardinality(paths)
        /\ \A p \in paths :
             out[1 + Cardinality({ q \in paths : Before(q, p) })] =
                <<depth + Len(p) - 1, VariableAt(variables_reference, p)>>

\* the lists of variables the store holds, with the reference of their scope
StoredLists(map) ==
    UNION { UNION { { <<scope.variables_reference, map[t].variables[f][scope]>> :
                        scope \in DOMAIN map[t].variables[f] } :
                    f \in DOMAIN map[t].variables } :
            t \in DOMAIN map }

\* C5: the list fetch_variables returns is the pre-order flattening of the
\* variable tree of its reference: every list in the store, and the list of
\* every fetch_variables call of a reconciliation in flight, holds each
\* variable of the tree once, a variable before its nested variables and these
\* before its next sibling, siblings in response order, and each with the
\* depth of the call plus its nesting.
C5_PreorderFlattening ==
    /\ \A l \in StoredLists(thread_states) : IsPreorder(l[2], l[1], 1)
    /\ \A i \in TaskIds : tasks[i].pc = "variables" =>
          \A n \in tasks[i].got \cup tasks[i].pending : Len(n) >= 2 =>
             IsPreorder(fetch_variables(NodeRef(tasks[i].frames, n), NodeDepth(n)),
                        NodeRef(tasks[i].frames, n), NodeDepth(n))

C5_Witness ==
    /\ 1 \in DOMAIN thread_states
    /\ 5 \in DOMAIN thread_states[1].variables
    /\ thread_states[1].variables[5][Scope("Locals", 10)] =
          << <<1, Variable("p", 11)>>, <<2, Variable("s", 0)>>,
             <<1, Variable("q", 12)>>, <<2, Variable("t", 13)>>,
             <<3, Variable("v", 0)>>, <<2, Variable("u", 0)>>,
             <<1, Variable("r", 0)>> >>

\* C6: when a Variables request fails, whether of a scope's reference or of a
\* nested one, the task ends with that error and its other responses are
\* dropped: the store stays as it was, and no list the store holds lacks a
\* variable of its tree.
C6_FetchAllOrNothing ==
    [][/\ \A i \in TaskIds : \A n \in tasks[i].pending :
             VariablesResponse(i, n, FALSE, FALSE) =>
                /\ tasks'[i] = IdleTask
                /\ logged' = <<"variables", n>>
                /\ thread_states' = thread_states
                /\ emitted' = <<>>
       /\ \A l \in StoredLists(thread_states') :
             Len(l[2]) = Cardinality(TreePaths(l[1]))
      ]_vars

C6_Witness ==
    /\ logged = <<"variables", <<1, 1, 2, 1>> >>
    /\ Quiet
    /\ thread_states # EmptyMap

\* C7: once a Variables response has arrived, the request of every variable
\* in it with a nonzero reference is sent: none waits for a sibling's subtree,
\* and the requests of two siblings are in flight together.
C7_SiblingsConcurrent ==
    \A i \in TaskIds : tasks[i].pc = "variables" =>
       \A n \in tasks[i].got : Len(n) >= 2 =>
          LET response == VariablesOf(NodeRef(tasks[i].frames, n))
          IN  \A m \in 1..Len(response) :
                 response[m].variables_reference > 0 =>
                    (n \o <<m>>) \in tasks[i].got \cup tasks[i].pending

C7_Witness ==
    /\ tasks[1].pc = "variables"
    /\ tasks[1].frames = <<StackFrame(5)>>
    /\ {<<1, 1, 1>>, <<1, 1, 2>>} \subseteq tasks[1].pending

\* C8: a Continued event with all_threads_continued = true sets the status of
\* every entry to Running and changes nothing else; with false or none, the
\* named thread's entry, if the store has one afterwards, is Running and every
\* other entry is what it was.
C8_ContinuedScope ==
    [][\A event \in ContinuedEvents : ContinuedEvent(event) =>
          IF event.all_threads_continued = Some(TRUE)
          THEN /\ DOMAIN thread_states' = DOMAIN thread_states
               /\ \A t \in DOMAIN thread_states :
                    thread_states'[t] = [thread_states[t] EXCEPT !.status = "Running"]
          ELSE /\ DOMAIN thread_states' \subseteq DOMAIN thread_states \cup {event.thread_id}
               /\ \A t \in DOMAIN thread_states \ {event.thread_id} :
                    /\ t \in DOMAIN thread_states'
                    /\ thread_states'[t] = thread_states[t]
               /\ event.thread_id \in DOMAIN thread_states =>
                    /\ event.thread_id \in DOMAIN thread_states'
                    /\ thread_states'[event.thread_id] =
                          [thread_states[event.thread_id] EXCEPT !.status = "Running"]
      ]_vars

C8_Witness ==
    /\ DOMAIN thread_states = {1, 2}
    /\ thread_states[1].status = "Running"
    /\ thread_states[1].stack_frames # <<>>
    /\ thread_states[2].status = "Stopped"

\* this step ends the task of a Thread event, finished, failed or panicked
ClearEnds(c) ==
    /\ clears[c].pc # "idle"
    /\ \/ clears'[c].pc = "idle"
       \/ ClearStart(c) /\ crashed'

\* the files whose editor the task has cleared when this step ends it
ClearedFiles(c) ==
    IF clears[c].pc = "spawned" THEN {}
    ELSE { clears[c].batch[k].source :
             k \in (1..Len(clears[c].batch)) \
                   (IF logged' = <<>> THEN {} ELSE clears[c].opening) }

\* no frame stored at the event is left with a highlight in its file that
\* the task has not cleared
ClearedAll(c) ==
    \A k \in 1..Len(clears[c].at_event) :
       LET source == clears[c].at_event[k].source
       IN  \/ source = NoneOpt
           \/ source \in ClearedFiles(c)
           \/ ~ \E h \in highlights' : h[1] = source[1]

\* C9: a Thread event with a reason other than Started adds no entry to the
\* store and, when the thread has one, sets its status to Ended; and when the
\* task it spawns ends, no stack frame the store held for the thread at the
\* event is left with a highlight in a file the task has not cleared.
C9_EndedAndCleared ==
    [][/\ \A t \in ThreadIds :
             ThreadEvent([reason |-> "exited", thread_id |-> t]) =>
                /\ DOMAIN thread_states' = DOMAIN thread_states
                /\ t \in DOMAIN thread_states =>
                      thread_states'[t].status = "Ended"
       /\ \A c \in ClearIds : ClearEnds(c) => ClearedAll(c)
      ]_vars

\* C10: a Thread event with reason Started leaves its thread with an entry
\* that is Running and has no stack frames and no variables, and every other
\* thread with the entry it had.
C10_StartedIsDefault ==
    [][\A t \in ThreadIds :
          ThreadEvent([reason |-> "started", thread_id |-> t]) =>
             /\ DOMAIN thread_states' = DOMAIN thread_states \cup {t}
             /\ thread_states'[t].status = "Running"
             /\ thread_states'[t].stack_frames = <<>>
             /\ DOMAIN thread_states'[t].variables = {}
             /\ \A u \in DOMAIN thread_states \ {t} :
                   thread_states'[u] = thread_states[u]
      ]_vars

C10_Witness ==
    /\ emitted = << <<"Thread", ClientId, [reason |-> "started", thread_id |-> 1]>> >>
    /\ DOMAIN thread_states = {1, 2}
    /\ thread_states[1].status = "Running"
    /\ thread_states[1].stack_frames = <<>>
    /\ thread_states[2].status = "Stopped"
    /\ thread_states[2].stack_frames # <<>>

(***************************************************************************)
(* Properties of the session's end                                         *)
(***************************************************************************)
\* this step is the poll of the task of an Exited event
ExitedPolled == exits' < exits

\* C11: when an Exited event has been handled (its task has run), every
\* thread of the store has status Exited, whatever its status was, each
\* entry is otherwise what it was and no entry is added or removed; the
\* handler itself leaves the store alone.
C11_ExitedMarksEveryThread ==
    [][/\ ExitedPolled =>
             /\ DOMAIN thread_states' = DOMAIN thread_states
             /\ \A t \in DOMAIN thread_states :
                   /\ thread_states'[t].status = "Exited"
                   /\ thread_states'[t] =
                         [thread_states[t] EXCEPT !.status = "Exited"]
       /\ exits' > exits => thread_states' = thread_states
      ]_vars

\* the task of an Exited event has run on a thread that was stopped (it has
\* frames) and one that was not
C11_Witness ==
    /\ teardown
    /\ exits = 0
    /\ DOMAIN thread_states = {1, 2}
    /\ \A t \in {1, 2} : thread_states[t].status = "Exited"
    /\ thread_states[1].stack_frames # <<>>
    /\ thread_states[2].stack_frames = <<>>
    /\ \A k \in TermIds : terms[k].pc = "idle"
    /\ sent = <<>>

\* the task k of a Terminated event is still before its first request
BeforeRequest(k) == terms[k].pc \in {"spawned", "clearing"}

Commands(requests) == { requests[n].command : n \in DOMAIN requests }

\* C12: the task of a Terminated event that carries restart data sends a
\* disconnect with the restart flag, then, once that has completed, launch
\* (request type Launch) or attach (Attach) with the restart data, and never
\* asks the project to stop the client: the task does not end before the
\* disconnect is sent.
C12_RestartIsIssued ==
    [][\A k \in TermIds : terms[k].restart # NoneOpt =>
          /\ BeforeRequest(k) =>
                \/ BeforeRequest(k)'
                \/ /\ terms'[k].pc = "disconnect"
                   /\ sent' = Append(sent, Request("terminated", "disconnect",
                                                   Some(TRUE)))
          /\ terms[k].pc # "restart" /\ terms'[k].pc = "restart" =>
                /\ terms[k].pc = "disconnect"
                /\ sent' = Append(Answered(sent, "terminated", TRUE),
                       Request("terminated",
                               IF config.request = "Launch" THEN "launch"
                                                            ELSE "attach",
                               terms[k].restart))
          /\ "stop_debug_adapter_client" \notin Commands(sent')
      ]_vars

\* C13: the task of a Terminated event without restart data (or without
\* body) asks the project to stop the client before it ends, and sends no
\* disconnect, launch or attach.
C13_StopIsRequested ==
    [][\A k \in TermIds : terms[k].pc # "idle" /\ terms[k].restart = NoneOpt =>
          /\ BeforeRequest(k)
          /\ \/ BeforeRequest(k)'
             \/ /\ terms'[k].pc = "idle"
                /\ Commands(sent') = {"stop_debug_adapter_client"}
          /\ Commands(sent') \cap {"disconnect", "launch", "attach"} = {}
      ]_vars

(***************************************************************************)
(* Properties of the session's start                                       *)
(***************************************************************************)
JsonEq(a, b) == a.kind = b.kind /\ a.value = b.value

\* merged is the deep merge of the objects stored and requested: it has the
\* keys of both; a key of stored alone keeps its value, a key of requested
\* alone has the value of the request, a key of both whose two values are
\* objects has their deep merge, and any other key of both has the value of
\* the request
RECURSIVE IsDeepMerge(_, _, _)
IsDeepMerge(merged, stored, requested) ==
    /\ merged.kind = "object"
    /\ DOMAIN merged.value = DOMAIN stored.value \cup DOMAIN requested.value
    /\ \A key \in DOMAIN merged.value :
          IF key \notin DOMAIN requested.value
          THEN JsonEq(merged.value[key], stored.value[key])
          ELSE IF key \notin DOMAIN stored.value
          THEN JsonEq(merged.value[key], requested.value[key])
          ELSE IF /\ stored.value[key].kind = "object"
                  /\ requested.value[key].kind = "object"
          THEN IsDeepMerge(merged.value[key], stored.value[key],
                           requested.value[key])
          ELSE JsonEq(merged.value[key], requested.value[key])

\* the request arguments stored for the client, or the empty object
StoredArgs ==
    IF config.request_args = NoneOpt THEN EmptyObject ELSE config.request_args[1]

\* C14: the configuration of the child session started for a StartDebugging
\* request is the deep merge of the requesting client's stored request
\* arguments with the configuration of the request, the request winning
\* on a conflicting key whose values are not both objects.
C14_ChildIsDeepMerge ==
    child # NoneOpt =>
       /\ child[1].config = config
       /\ IsDeepMerge(child[1].request_args, StoredArgs, child[1].from)

\* the client stores {a:1, b:{x:1}}, the request carries {b:{y:2}, c:3} and
\* the child is started with {a:1, b:{x:1, y:2}, c:3}
C14_Witness ==
    /\ child # NoneOpt
    /\ config.request_args # NoneOpt
    /\ JsonEq(config.request_args[1],
              Obj([a |-> Num(1), b |-> Obj([x |-> Num(1)])]))
    /\ JsonEq(child[1].from, Obj([b |-> Obj([y |-> Num(2)]), c |-> Num(3)]))
    /\ JsonEq(child[1].request_args,
              Obj([a |-> Num(1), b |-> Obj([x |-> Num(1), y |-> Num(2)]),
                   c |-> Num(3)]))

\* the requests a task has issued, in order
IssuedBy(task) == SelectSeq(sent, LAMBDA r : r.task = task)

\* C15: after an Initialized event the breakpoints are sent first and
\* configurationDone is sent only after that has completed successfully;
\* when sending the breakpoints fails, configurationDone is never sent and
\* nothing is sent again.
C15_BreakpointsThenConfigurationDone ==
    LET issued == IssuedBy("initialized")
    IN  /\ Len(issued) <= 2
        /\ Len(issued) >= 1 => issued[1].command = "setBreakpoints"
        /\ Len(issued) = 2 =>
              /\ issued[2].command = "configurationDone"
              /\ issued[1].result = "ok"
        /\ Len(issued) >= 1 /\ issued[1].result = "err" =>
              /\ Len(issued) = 1
              /\ initializing = "failed"
        /\ initializing \in {"idle", "spawned"} <=> issued = <<>>

\* the breakpoints were sent, and then configurationDone, which succeeded
C15_Witness ==
    /\ initializing = "done"
    /\ Len(IssuedBy("initialized")) = 2
    /\ IssuedBy("initialized")[1].result = "ok"
    /\ IssuedBy("initialized")[2].command = "configurationDone"
    /\ IssuedBy("initialized")[2].result = "ok"

\* C16: once the client has been started, initialize is sent first, and
\* only after it has succeeded exactly one of launch and attach is sent, as
\* the configured request kind says, with the stored request arguments;
\* when initialize fails neither is sent.
C16_InitializeThenLaunchOrAttach ==
    LET issued == IssuedBy("starting")
    IN  /\ Len(issued) <= 2
        /\ Len(issued) >= 1 =>
              /\ issued[1].command = "initialize"
              /\ issued[1].arguments = NoneOpt
        /\ Len(issued) = 2 =>
              /\ issued[1].result = "ok"
              /\ issued[2].command =
                    (IF config.request = "Launch" THEN "launch" ELSE "attach")
              /\ issued[2].arguments = config.request_args
        /\ Len(issued) >= 1 /\ issued[1].result = "err" =>
              /\ Len(issued) = 1
              /\ starting = "failed"
        /\ Len(issued) >= 1 /\ issued[1].result = "ok" => Len(issued) = 2
        /\ starting \in {"idle", "spawned"} <=> issued = <<>>

\* a client configured to attach with request arguments has been
\* initialized and then attached
C16_Witness ==
    /\ config.request = "Attach"
    /\ config.request_args # NoneOpt
    /\ starting = "done"
    /\ Len(IssuedBy("starting")) = 2
    /\ IssuedBy("starting")[2].command = "attach"
    /\ IssuedBy("starting")[2].arguments = config.request_args
    /\ IssuedBy("starting")[2].result = "ok"

\* C17: handling an Output event emits exactly one notification, Output
\* with the client's id and the event as it came, sends no request and
\* leaves the store and every task as they were.
C17_OutputIsForwarded ==
    [][\A event \in OutputEvents :
          OutputEvent(event) =>
             /\ emitted' = << <<"Output", ClientId, event>> >>
             /\ sent' = sent
             /\ thread_states' = thread_states
             /\ <<tasks, clears, terms, exits, starting, initializing>>' =
                   <<tasks, clears, terms, exits, starting, initializing>>
             /\ highlights' = highlights
             /\ child' = child
      ]_vars

\* an Output event has been handled while the store holds a stopped thread
C17_Witness ==
    /\ emitted = << <<"Output", ClientId,
                      [category |-> "stderr", output |-> "err"]>> >>
    /\ \E t \in DOMAIN thread_states : thread_states[t].status = "Stopped"

\* C18: no step of a handler or of a task removes an entry of the store:
\* over Stopped, Continued, Thread, Exited, Terminated and Output events the
\* set of thread ids only grows.
C18_ThreadIdsOnlyGrow ==
    [][DOMAIN thread_states \subseteq DOMAIN thread_states']_vars

\* both threads are still in the store after one has ended, the process has
\* exited and the task of a Terminated event has asked for the client to be
\* stopped
C18_Witness ==
    /\ DOMAIN thread_states = {1, 2}
    /\ thread_states[1].status = "Ended"
    /\ thread_states[2].status = "Exited"
    /\ "stop_debug_adapter_client" \in Commands(sent)
    /\ Settled

(***************************************************************************)
(* Properties of the navigation                                            *)
(***************************************************************************)
\* this step of task i places the highlight of the current frame
NavApplies(i) ==
    /\ tasks[i].pc = "nav_open"
    /\ tasks'[i].pc = "idle"
    /\ logged' = <<>>

\* the number of stack frames recorded in the store
RecordedFrames ==
    Len(AllStackFrames(thread_states,
                       CHOOSE order \in ValueOrders(thread_states) : TRUE))

C20_NoLateReplace ==
    [][\A t \in DOMAIN thread_states :
          /\ teardown =>
                \/ thread_states'[t] = thread_states[t]
                \/ thread_states'[t] =
                      [thread_states[t] EXCEPT !.status = "Exited"]
          /\ thread_states[t].status = "Exited" =>
                thread_states'[t].status # "Stopped"
      ]_vars

(***************************************************************************)
(* Properties of concurrent reconciliations and of the pane                *)
(***************************************************************************)
\* the reconciliation of the last Stopped event for thread t is in flight
LatestInFlight(t) ==
    \E j \in TaskIds :
       /\ tasks[j].pc \in ReconcilePcs \cup {"spawned"}
       /\ tasks[j].thread_id = t
       /\ tasks[j].latest

\* C21: Stopped events take effect in arrival order: when the
\* reconciliation of an earlier Stopped event for a thread completes after
\* the reconciliation of the last one has completed, the entry stays the
\* one assembled from the responses of the last event.
C21_ArrivalOrder ==
    [][\A i \in TaskIds :
          /\ Completes(i)
          /\ ~tasks[i].latest
          /\ ~LatestInFlight(tasks[i].thread_id)
          => thread_states'[tasks[i].thread_id] =
                thread_states[tasks[i].thread_id]
      ]_vars

\* C22: no response of the adapter makes the host crash: the step that
\* takes the StackTrace response of a reconciliation, an empty list of
\* frames included, ends as a logged error or goes on, and never panics.
C22_NoPanicOnStackTrace ==
    [][\A i \in TaskIds :
          tasks[i].pc = "stackTrace" /\ ~crashed => ~crashed'
      ]_vars

\* the current frame of navigation task i has no source, or a path that
\* does not resolve to a project path
CurrentUnresolved(i) ==
    \/ tasks[i].current[1].source = NoneOpt
    \/ tasks[i].current[1].source[1] \notin ProjectPaths

\* C23: when the current frame of a successful reconciliation has no
\* source (or source path), or a path outside the project, the navigation
\* is given up without a crash: no step of the navigation task crashes the
\* host, places a highlight or touches the store, so that the entry the
\* reconciliation stored stays.
C23_UnresolvedIsSkipped ==
    [][\A i \in TaskIds :
          /\ tasks[i].pc \in {"nav_spawned", "nav_clearing", "nav_open"}
          /\ CurrentUnresolved(i)
          /\ ~crashed
          => /\ ~crashed'
             /\ thread_states' = thread_states
             /\ highlights' \subseteq highlights
             /\ tasks'[i].pc # "nav_open"
      ]_vars

(***************************************************************************)
(* The pane                                                                *)
(***************************************************************************)
\* this step takes an item of thread t out of the pane
Removes(t) == items'[t] < items[t]

\* this step sends a terminateThreads request
SendsTerminateThreads ==
    /\ Len(sent') = Len(sent) + 1
    /\ sent'[Len(sent')].command = "terminateThreads"

\* C24: when the panel item of thread T is removed from the pane, the
\* terminateThreads task for T, and for no other thread, is spawned if and
\* only if T's status at that moment is neither Ended nor Exited; the
\* handler sends nothing itself and leaves the store alone, entry of T
\* included; a spawned task sends terminateThreads for exactly its thread,
\* and no other step sends that request.
C24_TerminateUnlessEnded ==
    [][/\ \A t \in ThreadIds :
             /\ Removes(t) =>
                   /\ t \in closing' <=>
                         thread_states[t].status \notin {"Ended", "Exited"}
                   /\ closing' \ {t} = closing
                   /\ sent' = sent
                   /\ thread_states' = thread_states
             /\ t \in closing /\ t \notin closing' =>
                   sent' = Append(sent, Request("removed_item",
                                     "terminateThreads", Some(<<t>>)))
       /\ SendsTerminateThreads => closing' # closing
      ]_vars

C24_Witness ==
    /\ DOMAIN thread_states = {1, 2}
    /\ thread_states[1].status = "Ended"
    /\ thread_states[1].stack_frames # <<>>
    /\ thread_states[2].status = "Stopped"
    /\ items = [t \in ThreadIds |-> 0]
    /\ closing = {}
    /\ Len(sent) = 1
    /\ sent[1].command = "terminateThreads"
    /\ sent[1].arguments = Some(<<2>>)

C26_NavigatesIfActive ==
    [][\A i \in TaskIds :
          /\ Completes(i) =>
                /\ tasks'[i].pc = "nav_spawned" <=>
                      active_item' = Some(tasks[i].thread_id)
                /\ tasks'[i].pc = "nav_spawned" =>
                      tasks'[i].current = Some(tasks[i].frames[1])
                /\ thread_states'[tasks[i].thread_id].status = "Stopped"
                /\ thread_states'[tasks[i].thread_id].stack_frames =
                      tasks[i].frames
                /\ emitted' = << <<"Stopped", ClientId, tasks[i].event>> >>
          /\ tasks[i].pc = "nav_spawned" /\ tasks'[i].pc = "nav_open" =>
                \A t \in DOMAIN thread_states :
                   thread_states[t].stack_frames = <<>>
      ]_vars

C26_Witness ==
    /\ \E i \in TaskIds :
          tasks[i].pc = "nav_spawned" /\ tasks[i].thread_id = 1
    /\ active_item = Some(1)
    /\ emitted = <<StoppedNotification(1)>>
    /\ items = [t \in ThreadIds |-> 1]
    /\ DOMAIN thread_states = {1, 2}
    /\ thread_states[2].status = "Stopped"
    /\ highlights = {}

\* C30: no step of the reconciliation of a Stopped event for thread T, from
\* its first poll to its closure or to the failure that ends it, adds,
\* removes or changes the store entry of any other thread.
C30_OtherEntriesUntouched ==
    [][\A i \in TaskIds :
          /\ tasks[i].pc \in ReconcilePcs \cup {"spawned"}
          /\ tasks'[i] # tasks[i]
          => \A u \in ThreadIds \ {tasks[i].thread_id} :
                /\ u \in DOMAIN thread_states' <=> u \in DOMAIN thread_states
                /\ u \in DOMAIN thread_states =>
                      thread_states'[u] = thread_states[u]
      ]_vars

C30_Witness ==
    /\ emitted = <<StoppedNotification(2)>>
    /\ DOMAIN thread_states = {1, 2}
    /\ thread_states[1].status = "Stopped"
    /\ thread_states[1].stack_frames = <<StackFrame(1)>>
    /\ thread_states[2].stack_frames = <<StackFrame(2), StackFrame(1)>>

(***************************************************************************)
(* The repl Session                                                        *)
(***************************************************************************)
\* the task awaits `forced` from this step on: the forced termination of
\* its kernel process begins
ForcingBegins(k) == stops[k].pc # "forcing" /\ stops'[k].pc = "forcing"

\* the shutdown request has been handed to the request_tx of process id
PoliteSent(id) ==
    \E n \in DOMAIN request_tx :
       request_tx[n].to = id /\ request_tx[n].content = "shutdown"

\* this step is the last of task k
Finishes(k) == stops[k].pc # "idle" /\ stops'[k].pc = "idle"

\* C27: in the task that shutdown or restart spawns for a running kernel,
\* the forced termination begins only when the shutdown request has been
\* sent and the timer that follows it has fired with the process still not
\* exited; the outputs are cleared and the state leaves ShuttingDown or
\* Restarting in the task's last step, after the request was sent and
\* `forced` has resolved.
C27_PoliteGraceForce ==
    [][\A k \in StopIds :
          /\ ForcingBegins(k) =>
                /\ stops[k].pc = "grace"
                /\ PoliteSent(stops[k].id)
                /\ processes[stops[k].id] # "exited"
          /\ Finishes(k) =>
                /\ PoliteSent(stops[k].id)
                /\ stops[k].pc = "forcing" \/ stops[k].forced \in {"ok", "err"}
                /\ blocks' = {}
                /\ kernel'.state \in {"Shutdown", "StartingKernel"}
      ]_vars

\* C28: in every step in which the kernel state becomes Shutdown, or becomes
\* the start of a new kernel, the block map is empty once the step is done.
C28_ClearedWhenStopped ==
    [][\/ kernel'.state = "Shutdown" /\ kernel.state # "Shutdown"
       \/ kernel'.state = "StartingKernel" /\ kernel' # kernel
       => blocks' = {}]_vars

\* C29: while the `forced` task that shutdown or restart obtained for the
\* running kernel has not resolved, the kernel state stays ShuttingDown or
\* Restarting; it becomes Shutdown, or the start of a new kernel, no earlier
\* than in the step in which `forced` resolves.
C29_StopWaitsForForced ==
    [][\A k \in StopIds :
          /\ stops[k].pc # "idle"
          /\ stops[k].forced = "pending"
          /\ ~(stops[k].pc = "forcing" /\ stops'[k] # stops[k])
          => kernel'.state \in {"ShuttingDown", "Restarting"}]_vars

\* C31: when a Continued event for a thread, or for all threads, has been
\* handled after the last Stopped event for that thread, the closure of
\* that event's reconciliation does not leave the thread's status Stopped.
C31_ContinuedIsKept ==
    [][\A i \in TaskIds :
          /\ Completes(i)
          /\ tasks[i].latest
          /\ tasks[i].resumed
          => thread_states'[tasks[i].thread_id].status # "Stopped"
      ]_vars

\* C32: when a navigation that cleared the existing highlights has placed
\* its highlight, that highlight is the only one over all files.
C32_OneHighlight ==
    [][\A i \in TaskIds : NavApplies(i) => Cardinality(highlights') <= 1]_vars

\* C33: a Stopped notification is emitted by exactly the steps that complete
\* a reconciliation, once, carrying the client id and the event the
\* reconciliation was spawned for, together with the replaced store entry;
\* a step that ends a reconciliation with a failed request emits nothing.
C33_StoppedOncePerSuccess ==
    [][/\ \A i \in TaskIds :
             /\ Completes(i) =>
                   /\ emitted' = << <<"Stopped", ClientId, tasks[i].event>> >>
                   /\ tasks[i].thread_id \in DOMAIN thread_states'
                   /\ thread_states'[tasks[i].thread_id].status = "Stopped"
                   /\ thread_states'[tasks[i].thread_id].stack_frames = tasks[i].frames
             /\ Fails(i) => emitted' = <<>>
       /\ (\E k \in 1..Len(emitted') : emitted'[k][1] = "Stopped")
             => \E i \in TaskIds : Completes(i)
      ]_vars

C33_Witness ==
    /\ emitted = <<StoppedNotification(2)>>
    /\ logged = <<>>
    /\ thread_states[2].status = "Stopped"
    /\ thread_states[2].stack_frames = <<StackFrame(1)>>
    /\ 1 \notin DOMAIN thread_states

\* C34: a Thread event with reason Started for a thread that has an entry
\* replaces the entry by the default state (status Running, no stack frames,
\* the default current frame id, no variables); no highlight is removed and
\* no task that clears highlights is spawned.
C34_StartedResetsEntry ==
    [][\A t \in ThreadIds :
          /\ ThreadEvent([reason |-> "started", thread_id |-> t])
          /\ t \in DOMAIN thread_states
          => /\ thread_states'[t] = DefaultThreadState
             /\ thread_states'[t].status = "Running"
             /\ thread_states'[t].stack_frames = <<>>
             /\ highlights' = highlights
             /\ clears' = clears
      ]_vars

C34_Witness ==
    /\ emitted = << <<"Thread", ClientId, [reason |-> "started", thread_id |-> 1]>> >>
    /\ items[1] > 0
    /\ thread_states[1] = DefaultThreadState
    /\ highlights # {}

\* C35: once shutdown has been invoked, and as long as restart is not
\* invoked after it, the kernel state is ShuttingDown or Shutdown, and once
\* Shutdown it stays Shutdown: no kernel start that was pending when
\* shutdown was invoked moves the session to Running, Starting or
\* ErroredLaunch.
C35_ShutdownIsFinal ==
    [][last_call'.call = "shutdown" =>
          /\ kernel'.state \in {"ShuttingDown", "Shutdown"}
          /\ last_call.call = "shutdown" /\ kernel.state = "Shutdown"
                => kernel'.state = "Shutdown"
      ]_vars

\* C36: once restart has been invoked, and as long as shutdown is not
\* invoked after it, the kernel state is never Shutdown, and the task of a
\* shutdown that was in progress ends without changing the kernel state or
\* the blocks.
C36_RestartIsKept ==
    [][last_call'.call = "restart" =>
          /\ kernel'.state # "Shutdown"
          /\ \A k \in StopIds :
                Finishes(k) /\ stops[k].kind = "shutdown"
                   => kernel' = kernel /\ blocks' = blocks
      ]_vars

\* this step is a call of restart that finds the kernel already Restarting
RestartsAgain ==
    /\ last_call' # last_call
    /\ last_call' = [call |-> "restart", found |-> "Restarting"]

\* the kernel processes launched by this step
Launched == { id \in KernelIds : processes[id] = "none" /\ processes'[id] # "none" }

\* C37: a call of restart that finds the kernel Restarting leaves the state
\* Restarting, clears no output, spawns no task, sends no request and
\* launches no kernel; the task of a restart launches exactly one kernel,
\* in its last step.
C37_RestartingIsNoOp ==
    [][/\ RestartsAgain =>
             /\ kernel' = Restarting
             /\ UNCHANGED <<blocks, editor_blocks, request_tx, stops, queued,
                            processes>>
       /\ \A k \in StopIds :
             stops[k].kind = "restart" /\ stops'[k] # stops[k] =>
                Cardinality(Launched) = IF Finishes(k) THEN 1 ELSE 0
      ]_vars

C37_Witness ==
    /\ last_call = [call |-> "restart", found |-> "Restarting"]
    /\ kernel = StartingKernel(2)
    /\ processes[1] = "exited"
    /\ blocks = {}
    /\ \A k \in StopIds : stops[k] = IdleStop

\* the execute request of message id msg_id for the kernel in `kernel`
ExecuteRequest(msg_id) == Message(kernel.id, "execute", FALSE, msg_id)

\* C38: when execute creates a block, its request is handed to the kernel in
\* that step if the kernel is running, is queued on the pending start if
\* the kernel is starting, and is neither sent nor queued in any other
\* state; a queued request is sent only once its start has resolved, and
\* then only if the kernel is running; no execute request reaches a kernel
\* in another way; execute with empty code changes nothing, and execute with
\* code creates the block of its cell in every kernel state, provided
\* EditorBlock::new succeeds.
C38_SentWhenRunning ==
    [][/\ \A b \in blocks' \ blocks :
             /\ kernel.state = "RunningKernel" =>
                   /\ request_tx' = Append(request_tx, ExecuteRequest(b.msg_id))
                   /\ queued' = queued
             /\ kernel.state = "StartingKernel" =>
                   /\ request_tx' = request_tx
                   /\ queued' = queued \cup {[msg_id |-> b.msg_id, wait |-> kernel.id]}
             /\ kernel.state \notin {"RunningKernel", "StartingKernel"} =>
                   /\ request_tx' = request_tx
                   /\ queued' = queued
       /\ \A q \in queued \ queued' :
             /\ processes[q.wait] # "starting"
             /\ request_tx' = IF kernel.state = "RunningKernel"
                              THEN Append(request_tx, ExecuteRequest(q.msg_id))
                              ELSE request_tx
       /\ \A n \in DOMAIN request_tx' \ DOMAIN request_tx :
             request_tx'[n].content = "execute" =>
                /\ kernel.state = "RunningKernel"
                /\ \/ \E b \in blocks' \ blocks : b.msg_id = request_tx'[n].msg_id
                   \/ \E q \in queued \ queued' : q.msg_id = request_tx'[n].msg_id
       /\ \A range \in Ranges, created \in BOOLEAN :
             execute("", range, created) =>
                UNCHANGED <<blocks, editor_blocks, request_tx, queued>>
       /\ \A range \in Ranges :
             execute("1 + 1", range, TRUE) =>
                \E b \in blocks' \ blocks : b.code_range = range
      ]_vars

C38_Witness ==
    /\ kernel = ShuttingDown
    /\ { b.msg_id : b \in blocks } = {1, 2}
    /\ request_tx = << Message(1, "execute", FALSE, 1),
                       Message(1, "shutdown", FALSE, 0) >>
    /\ queued = {}

\* no two blocks of the map have overlapping code ranges
NoOverlap ==
    \A a \in blocks, b \in blocks :
        a # b => ~overlaps(a.code_range, b.code_range)

\* C39: after every step no two blocks of the block map have overlapping code
\* ranges (the map is empty at first); a block that execute inserts overlaps no block that stays; and a
\* block that leaves the map leaves the editor in the same step.
C39_BlocksNeverOverlap ==
    [][/\ NoOverlap'
       /\ \A new \in blocks' \ blocks, b \in blocks :
             overlaps(new.code_range, b.code_range) =>
                b \notin blocks' /\ b.block_id \notin editor_blocks'
       /\ \A b \in blocks \ blocks' : b.block_id \notin editor_blocks'
      ]_vars

C39_Witness ==
    /\ blocks = { [msg_id |-> 3, code_range |-> <<1, 2>>, block_id |-> 3] }
    /\ editor_blocks = {3}
    /\ Len(request_tx) = 3
    /\ \A n \in 1..3 : request_tx[n].content = "execute"

====
